---- MODULE Spec2Model ----
(***************************************************************************)
(* The provider abstraction and the fallback router of bible-study-scribby *)
(* (services/llm_router.py, services/llm_providers/).                      *)
(*                                                                         *)
(* One request at a time is followed from its entry into the router to the *)
(* value it returns or the exception it raises.  The router runs on an     *)
(* event loop: it is observable only at its awaits, so one step of the     *)
(* model runs the code from one await (or the entry) to the next await (or *)
(* the return).                                                            *)
(*                                                                         *)
(* Text is a sequence of pieces (an f-string is the sequence of its        *)
(* literal and interpolated parts); a JSON value is a record               *)
(* [type, val], val being a function from keys to values for an object.    *)
(***************************************************************************)
EXTENDS Integers, Sequences, FiniteSets, TLC

VARIABLES
    keys,               \* config.py: which *_API_KEY values are set (truthy)
    LLM_PROVIDER,       \* config.py: the configured override
    pc,                 \* "idle" | "awaiting" | "done": position of the request
    op,                 \* entry point of the request
    requested_provider, \* argument of the request
    requested_model,    \* argument of the request
    effective_provider, \* local of the router
    providers,          \* local of the router: the auto-mode candidate list
    idx,                \* local of the router: position of the for loop
    in_flight,          \* provider calls started and not yet returned or raised
    calls,              \* history: provider calls started, in order
    replies,            \* history: what each finished provider call did
    result,             \* what the router gave its caller
    served,             \* requests taken so far
    reference,          \* argument of the request
    cache,              \* database.py: the rows of the table cached_studies
    next_id,            \* database.py: the next AUTOINCREMENT id of that table
    legacy,             \* claude_api.generate_study: the state of each request
    history,            \* history: the cache events of those requests, in order
    unit                \* the last direct call of a provider-level function

vars == <<keys, LLM_PROVIDER, pc, op, requested_provider, requested_model,
          effective_provider, providers, idx, in_flight, calls, replies, result,
          served, reference, cache, next_id, legacy, history, unit>>

config == <<keys, LLM_PROVIDER>>

\* The router's own state.
router == <<pc, op, requested_provider, requested_model, effective_provider,
            providers, idx, in_flight, calls, replies, result, served,
            reference>>

\* The result cache and the requests of claude_api.generate_study.
database == <<cache, next_id, legacy, history>>

(***************************************************************************)
(* Bounds and input sets                                                   *)
(***************************************************************************)

\* Python's None, for the optional arguments and the optional results.
None == "<None>"

\* The number of requests followed before the model stops taking new ones.
MaxRequests == 1

\* Values of the LLM_PROVIDER environment variable.
ConfiguredValues == {"auto", "AUTO", "", "claude", "Gemini", "anthropic"}

\* Values of the requested_provider argument.
Hints == {None, "", "groq", "GROQ", "openrouter", "gemini", "google",
          "claude", "Anthropic", "auto", "mistral", "Mistral"}

\* Values of the requested_model argument.
Models == {None, "", "custom-model"}

\* Values of the reference argument of claude_api.generate_study.
References == {"John 1:1-18", "Psalm 23"}

\* Values of the reference argument of the router.
RouterReferences == {"John 1:1-18"}

\* The number of claude_api.generate_study requests followed, which may
\* overlap in any way.
MaxLegacyRequests == 2

(***************************************************************************)
(* Strings                                                                 *)
(***************************************************************************)

\* str.lower() on the strings the model uses.
Lower(s) ==
    CASE s = "GROQ" -> "groq"
      [] s = "AUTO" -> "auto"
      [] s = "Anthropic" -> "anthropic"
      [] s = "Gemini" -> "gemini"
      [] s = "Mistral" -> "mistral"
      [] OTHER -> s

\* Truthiness of an Optional[str]: None and "" are falsy.
Truthy(s) == s # None /\ s # ""

(***************************************************************************)
(* Documents                                                               *)
(***************************************************************************)

Object(fields) == [type |-> "object", val |-> fields]

\* The value a finished call left when it raised instead of returning.
NoStudy == [type |-> "none", val |-> <<>>]

\* bool(study.get("error")): the flag is a JSON boolean, and get answers
\* None, which is falsy, when the key is absent.
Flagged(study) ==
    IF "error" \in DOMAIN study.val THEN study.val["error"] ELSE FALSE

\* An error document that keeps the message out of its summary.
create_error_study_NoSummary(error_message) ==
    Object([error |-> TRUE,
            purpose |-> <<"Error: ">> \o error_message,
            context |-> <<"Unable to generate study at this time.">>,
            key_themes |-> << <<"Error">> >>,
            study_flow |-> <<
                [passage_section |-> <<"N/A">>,
                 section_heading |-> <<"Error">>,
                 observation_question |-> <<"What does the text say?">>,
                 observation_answer |-> <<"Please try again.">>,
                 interpretation_question |-> <<"What does it mean?">>,
                 interpretation_answer |-> <<"Please try again.">>,
                 connection |-> <<"">>] >>,
            summary |-> <<"An error occurred.">>,
            application_questions |-> << <<"Please try generating the study again.">> >>,
            cross_references |-> <<>>,
            prayer_prompt |-> <<"Pray for understanding as you read God's Word.">>])

create_error_study(error_message) ==
    Object([error |-> TRUE,
            purpose |-> <<"Error: ">> \o error_message,
            context |-> <<"Unable to generate study at this time.">>,
            key_themes |-> << <<"Error">> >>,
            study_flow |-> <<
                [passage_section |-> <<"N/A">>,
                 section_heading |-> <<"Error">>,
                 observation_question |-> <<"What does the text say?">>,
                 observation_answer |-> <<"Please try again.">>,
                 interpretation_question |-> <<"What does it mean?">>,
                 interpretation_answer |-> <<"Please try again.">>,
                 connection |-> <<"">>] >>,
            summary |-> error_message,
            application_questions |-> << <<"Please try generating the study again.">> >>,
            cross_references |-> <<>>,
            prayer_prompt |-> <<"Pray for understanding as you read God's Word.">>])

(***************************************************************************)
(* The repair parser, on the response texts the model feeds it             *)
(***************************************************************************)

\* A complete study in the shape the prompt asks for (it has no error key).
FullStudyText ==
    "{\"purpose\": \"p\", \"context\": \"c\", \"key_themes\": [\"t\"], \"study_flow\": [], \"summary\": \"s\", \"application_questions\": [\"q\"], \"cross_references\": [], \"prayer_prompt\": \"pr\"}"

\* The same study with an explicit false flag.
UnflaggedStudyText ==
    "{\"purpose\": \"p\", \"context\": \"c\", \"key_themes\": [\"t\"], \"study_flow\": [], \"summary\": \"s\", \"application_questions\": [\"q\"], \"cross_references\": [], \"prayer_prompt\": \"pr\", \"error\": false}"

\* The same study carrying a true flag of the backend's own.
FlaggedStudyText ==
    "{\"purpose\": \"p\", \"context\": \"c\", \"key_themes\": [\"t\"], \"study_flow\": [], \"summary\": \"s\", \"application_questions\": [\"q\"], \"cross_references\": [], \"prayer_prompt\": \"pr\", \"error\": true}"

\* A study cut off after two fields, inside key_themes.
TruncatedStudyText == "{\"purpose\": \"p\", \"key_themes\": [\"t\""

EmptyObjectText == "{}"

ArrayText == "[]"

\* JSON texts that are a string, a number and null.
StringText == "\"text\""

NumberText == "1"

NullText == "null"

ProseText == "not json"

ResponseTexts ==
    {FullStudyText, UnflaggedStudyText, FlaggedStudyText, TruncatedStudyText,
     EmptyObjectText, ArrayText, StringText, NumberText, NullText, ProseText}

FullStudyFields ==
    [purpose |-> <<"p">>,
     context |-> <<"c">>,
     key_themes |-> << <<"t">> >>,
     study_flow |-> <<>>,
     summary |-> <<"s">>,
     application_questions |-> << <<"q">> >>,
     cross_references |-> <<>>,
     prayer_prompt |-> <<"pr">>]

\* f @@ (k :> v) for a record f
WithField(f, k, v) ==
    [x \in DOMAIN f \cup {k} |-> IF x = k THEN v ELSE f[x]]

Parsed(value) == [ok |-> TRUE, value |-> value]

\* json.JSONDecodeError raised out of the parser
JSONDecodeError == [ok |-> FALSE, value |-> NoStudy]

\* parse_json_response on each response text: the direct parse answers for
\* the valid texts, the truncation repair closes the cut-off study with "]}",
\* and every stage fails on the prose.
parse_json_response(response_text) ==
    CASE response_text = FullStudyText ->
            Parsed(Object(FullStudyFields))
      [] response_text = UnflaggedStudyText ->
            Parsed(Object(WithField(FullStudyFields, "error", FALSE)))
      [] response_text = FlaggedStudyText ->
            Parsed(Object(WithField(FullStudyFields, "error", TRUE)))
      [] response_text = TruncatedStudyText ->
            Parsed(Object([purpose |-> <<"p">>, key_themes |-> << <<"t">> >>]))
      [] response_text = EmptyObjectText ->
            Parsed(Object([k \in {} |-> TRUE]))
      [] response_text = ArrayText ->
            Parsed([type |-> "array", val |-> <<>>])
      [] response_text = StringText ->
            Parsed([type |-> "string", val |-> <<"text">>])
      [] response_text = NumberText ->
            Parsed([type |-> "number", val |-> <<"1">>])
      [] response_text = NullText ->
            Parsed([type |-> "null", val |-> <<>>])
      [] OTHER -> JSONDecodeError

(***************************************************************************)
(* Providers                                                               *)
(***************************************************************************)

\* The fallback order written premium-first.
PremiumFirstOrder == <<"claude", "gemini", "openrouter", "groq">>

DEFAULT_PROVIDER_ORDER == <<"groq", "openrouter", "gemini", "claude">>

\* The keys of the providers table of get_provider_by_name.
RegisteredProviders == {"groq", "openrouter", "gemini", "claude"}

\* The class attribute model of each provider.
default_model(p) ==
    CASE p = "groq" -> "llama-3.3-70b-versatile"
      [] p = "openrouter" -> "meta-llama/llama-3.2-3b-instruct:free"
      [] p = "gemini" -> "gemini-2.0-flash"
      [] p = "claude" -> "claude-haiku-4-5-20251001"

\* The name each provider gives itself in its own messages.
Label(p) ==
    CASE p = "groq" -> "Groq"
      [] p = "openrouter" -> "OpenRouter"
      [] p = "gemini" -> "Gemini"
      [] p = "claude" -> "Claude"

\* The name each provider gives its credential in its own messages.
KeyLabel(p) ==
    CASE p = "groq" -> "Groq"
      [] p = "openrouter" -> "OpenRouter"
      [] p = "gemini" -> "Google"
      [] p = "claude" -> "Anthropic"

\* An availability check that does not read the key.
is_available_Always(p) == TRUE

\* is_available(): bool(<the provider's API key>)
is_available(p) == keys[p]

\* A choice of model that takes every override but None as given.
effective_model_EmptyGiven(p, model_override) ==
    IF model_override # None THEN model_override ELSE default_model(p)

\* model_override or self.model
effective_model(p, model_override) ==
    IF Truthy(model_override) THEN model_override ELSE default_model(p)

\* An error handler whose message leaves the provider out.
handle_error_Anonymous(p, detail) ==
    create_error_study(<<"Error: ", detail>>)

\* LLMProvider._handle_error
handle_error(p, detail) ==
    create_error_study(<<p, " error: ", detail>>)

(***************************************************************************)
(* What one provider call meets.  kind is                                  *)
(*   "raises"        the call raises an Exception to the router (the       *)
(*                   abstract method promises nothing else, and the router *)
(*                   guards against it),                                   *)
(*   "network_error" the transport raises,                                 *)
(*   "status_error"  the backend answers with a non-success status,        *)
(*   "text"          the backend answers with text; stop is the reason it  *)
(*                   stopped, which only the Claude provider reads.        *)
(***************************************************************************)
Backend(kind, text, stop) == [kind |-> kind, text |-> text, stop |-> stop]

BackendOutcomes(p) ==
    {Backend("raises", "", "end_turn"),
     Backend("network_error", "", "end_turn"),
     Backend("status_error", "", "end_turn")}
    \cup {Backend("text", t, "end_turn") : t \in ResponseTexts}
    \cup (IF p = "claude"
          THEN {Backend("text", t, "max_tokens") : t \in {TruncatedStudyText, ProseText}}
          ELSE {})

Returned(study) == [raised |-> FALSE, study |-> study]

Raised == [raised |-> TRUE, study |-> NoStudy]

\* The except clauses of generate_study for a failed transport call.
TransportErrorStudy(p, b) ==
    CASE p = "openrouter" /\ b.kind = "status_error" ->
            create_error_study(<<"OpenRouter", " API error: ", "<status>">>)
      [] p = "claude" ->
            create_error_study(<<"Claude", " API error: ", "<detail>">>)
      [] OTHER -> handle_error(p, "<detail>")

\* The text handling without the branch on the stop reason.
ParsedStudy_Generic(p, b) ==
    LET r == parse_json_response(b.text) IN
    IF r.ok THEN r.value
    ELSE create_error_study(<<"Failed to parse ", Label(p), " response: ",
                              "<detail>">>)

\* The handling of the backend's text in generate_study.
ParsedStudy(p, b) ==
    LET r == parse_json_response(b.text) IN
    IF r.ok THEN r.value
    ELSE IF p = "claude" /\ b.stop = "max_tokens"
         THEN create_error_study(<<"Response truncated (", "<n>",
                  " tokens). Try a shorter passage or fewer verses.">>)
         ELSE create_error_study(<<"Failed to parse ", Label(p), " response: ",
                                   "<detail>">>)

\* generate_study of the provider named p when its backend does b.
generate_study(p, b) ==
    IF b.kind = "raises" THEN Raised
    ELSE IF ~is_available(p)
         THEN Returned(create_error_study(<<KeyLabel(p), " API key not configured">>))
    ELSE IF b.kind = "text" THEN Returned(ParsedStudy(p, b))
    ELSE Returned(TransportErrorStudy(p, b))

\* What one free-text call meets: text, or a failure of the transport.
PromptOutcomes == {"text", "network_error", "status_error"}

\* complete_prompt of the provider named p: the stripped text, or RuntimeError.
provider_complete_prompt(p, b) ==
    IF ~is_available(p) THEN [raised |-> TRUE, text |-> None]
    ELSE IF b = "text" THEN [raised |-> FALSE, text |-> "<text>"]
    ELSE [raised |-> TRUE, text |-> None]

\* A provider that sends the request again after a failed transport call.
backend_requests_Retry(p, b) ==
    IF ~is_available(p) THEN 0
    ELSE IF b.kind \in {"network_error", "status_error"} THEN 2
    ELSE 1

\* The outbound requests of one generate_study or complete_prompt call: the
\* availability check leaves before the request, and the one request of the
\* try block is in no loop.
backend_requests(p, b) ==
    IF ~is_available(p) THEN 0 ELSE 1

(***************************************************************************)
(* The router                                                              *)
(***************************************************************************)

\* A lookup in an empty alias table.
provider_mapping_get_NoAlias(key, default) == default

\* provider_mapping.get(key, default)
provider_mapping_get(key, default) ==
    CASE key = "openrouter" -> "openrouter"
      [] key = "anthropic" -> "claude"
      [] key = "google" -> "gemini"
      [] key = "claude" -> "claude"
      [] key = "gemini" -> "gemini"
      [] key = "groq" -> "groq"
      [] OTHER -> default

\* A resolution that asks the configuration before the hint.
EffectiveProvider_ConfigFirst(hint) ==
    IF Truthy(LLM_PROVIDER) /\ Lower(LLM_PROVIDER) # "auto"
    THEN Lower(LLM_PROVIDER)
    ELSE IF Truthy(hint)
         THEN provider_mapping_get(Lower(hint), Lower(hint))
         ELSE None

\* A resolution that takes the hint auto for no hint.
EffectiveProvider_AutoHint(hint) ==
    IF Truthy(hint) /\ Lower(hint) # "auto"
    THEN provider_mapping_get(Lower(hint), Lower(hint))
    ELSE IF Truthy(LLM_PROVIDER) /\ Lower(LLM_PROVIDER) # "auto"
         THEN Lower(LLM_PROVIDER)
         ELSE None

\* "Determine effective provider": None stands for auto mode.
EffectiveProvider(hint) ==
    IF Truthy(hint)
    THEN provider_mapping_get(Lower(hint), Lower(hint))
    ELSE IF Truthy(LLM_PROVIDER) /\ Lower(LLM_PROVIDER) # "auto"
         THEN Lower(LLM_PROVIDER)
         ELSE None

\* The lookup with a default class for a name the table lacks.
get_provider_by_name_Defaulting(name) ==
    IF Lower(name) \in {"groq", "openrouter", "gemini", "claude"}
    THEN Lower(name)
    ELSE "groq"

\* A provider instance is stateless and is named by its name attribute.
get_provider_by_name(name) ==
    IF Lower(name) \in RegisteredProviders THEN Lower(name) ELSE None

\* The candidate list without the availability filter.
get_available_providers_Unfiltered ==
    SelectSeq(DEFAULT_PROVIDER_ORDER,
              LAMBDA name : get_provider_by_name(name) # None)

get_available_providers ==
    SelectSeq(DEFAULT_PROVIDER_ORDER,
              LAMBDA name : /\ get_provider_by_name(name) # None
                            /\ is_available(get_provider_by_name(name)))

UnknownProviderMessage(name) == <<"Unknown provider: ", name>>

NotConfiguredMessage(name) == <<"Provider ", name, " not configured">>

NoProvidersMessage ==
    <<"No LLM providers configured. Please add at least one API key ",
      "(GROQ_API_KEY, OPENROUTER_API_KEY, GOOGLE_API_KEY, or ANTHROPIC_API_KEY) to your .env file.">>

AllFailedMessage ==
    <<"All LLM providers failed. Please try again later or check your API keys.">>

\* What the router gives its caller: a pair, or an exception.
NoResult == [status |-> "none", study |-> NoStudy, text |-> None,
             name |-> None, error |-> <<>>]

ReturnStudy(study, name) ==
    [status |-> "returned", study |-> study, text |-> None, name |-> name,
     error |-> <<>>]

ReturnText(text, name) ==
    [status |-> "returned", study |-> NoStudy, text |-> text, name |-> name,
     error |-> <<>>]

Raise(message) ==
    [status |-> "raised", study |-> NoStudy, text |-> None, name |-> None,
     error |-> message]

\* The exception of a provider call, as it leaves the router uncaught.
ProviderException(p) == <<"exception raised by ", p>>

Call(p, method, model_override) ==
    [provider |-> p, method |-> method, model_override |-> model_override,
     model |-> effective_model(p, model_override)]

\* Every remaining candidate started at once.
AwaitedCalls_FanOut(ps, i) == {ps[j] : j \in i..Len(ps)}

\* The calls outstanding while the router waits at its await for candidate
\* i of ps: the loop awaits each call before it goes on.
AwaitedCalls(ps, i) == {ps[i]}

\* The router has given its caller r.
Finish(r) ==
    /\ pc' = "done"
    /\ result' = r
    /\ in_flight' = {}
    /\ UNCHANGED <<calls, providers, idx>>

\* The router calls method on candidate i of ps and waits for it.
Await(ps, i, method, model_override) ==
    /\ pc' = "awaiting"
    /\ providers' = ps
    /\ idx' = i
    /\ in_flight' = AwaitedCalls(ps, i)
    /\ calls' = Append(calls, Call(ps[i], method, model_override))
    /\ UNCHANGED result

\* The loop without its check of the error flag.
CandidateFailed_Unchecked(r) ==
    \/ r.raised
    \/ r.study.type # "object"

\* A check that takes a value without an error flag of its own for a
\* success, whatever the value is.
CandidateFailed_AnyValue(r) ==
    \/ r.raised
    \/ r.study.type = "object" /\ Flagged(r.study)

\* if study.get("error"): a value without get raises AttributeError, which
\* the loop's except clause catches like any other exception.
CandidateFailed(r) ==
    \/ r.raised
    \/ r.study.type # "object"
    \/ Flagged(r.study)

\* generate_study_with_fallback, from its entry to its first await or return
GenerateStudyWithFallback(ref, hint, model_override) ==
    /\ pc = "idle"
    /\ served < MaxRequests
    /\ served' = served + 1
    /\ reference' = ref
    /\ op' = "generate_study_with_fallback"
    /\ requested_provider' = hint
    /\ requested_model' = model_override
    /\ effective_provider' = EffectiveProvider(hint)
    /\ LET name == EffectiveProvider(hint)
           provider == get_provider_by_name(name)
           ps == get_available_providers
       IN  IF Truthy(name)
           THEN IF provider = None
                THEN Finish(ReturnStudy(
                         create_error_study(UnknownProviderMessage(name)), "error"))
                ELSE IF ~is_available(provider)
                THEN Finish(ReturnStudy(
                         create_error_study(NotConfiguredMessage(name)), "error"))
                ELSE Await(<<provider>>, 1, "generate_study", model_override)
           ELSE IF ps = <<>>
                THEN Finish(ReturnStudy(
                         create_error_study(NoProvidersMessage), "error"))
                ELSE Await(ps, 1, "generate_study", model_override)
    /\ UNCHANGED <<config, replies, database, unit>>

\* Explicit mode with a repeat of the call after an error document.
ExplicitReturns_Retry(p, r) ==
    IF r.raised
    THEN Finish(Raise(ProviderException(p)))
    ELSE IF r.study.type = "object" /\ Flagged(r.study) /\ Len(calls) < 2
    THEN Await(<<p>>, 1, "generate_study", requested_model)
    ELSE Finish(ReturnStudy(r.study, p))

\* Explicit mode after the awaited call: its result goes to the caller as it
\* is, and so does its exception, for no try statement encloses the call.
ExplicitReturns(p, r) ==
    IF r.raised
    THEN Finish(Raise(ProviderException(p)))
    ELSE Finish(ReturnStudy(r.study, p))

\* The loop without its try statement: a candidate's exception leaves the
\* router.
AutoReturns_NoTry(p, r) ==
    IF r.raised
    THEN Finish(Raise(ProviderException(p)))
    ELSE IF r.study.type = "object" /\ ~Flagged(r.study)
    THEN Finish(ReturnStudy(r.study, p))
    ELSE IF idx < Len(providers)
         THEN Await(providers, idx + 1, "generate_study", requested_model)
         ELSE Finish(ReturnStudy(create_error_study(AllFailedMessage), "error"))

\* A loop that calls a failed candidate once more before it moves on.
AutoReturns_Retry(p, r) ==
    IF ~CandidateFailed(r)
    THEN Finish(ReturnStudy(r.study, p))
    ELSE IF Len(calls) < 2 * idx
         THEN Await(providers, idx, "generate_study", requested_model)
         ELSE IF idx < Len(providers)
         THEN Await(providers, idx + 1, "generate_study", requested_model)
         ELSE Finish(ReturnStudy(create_error_study(AllFailedMessage), "error"))

\* A loop that returns the document under the name of its first candidate.
AutoReturns_FirstName(p, r) ==
    IF ~CandidateFailed(r)
    THEN Finish(ReturnStudy(r.study, providers[1]))
    ELSE IF idx < Len(providers)
         THEN Await(providers, idx + 1, "generate_study", requested_model)
         ELSE Finish(ReturnStudy(create_error_study(AllFailedMessage), "error"))

\* Auto mode after the awaited call: the rest of the loop body, and the next
\* turn of the loop up to its await, or the code after the loop.
AutoReturns(p, r) ==
    IF ~CandidateFailed(r)
    THEN Finish(ReturnStudy(r.study, p))
    ELSE IF idx < Len(providers)
         THEN Await(providers, idx + 1, "generate_study", requested_model)
         ELSE Finish(ReturnStudy(create_error_study(AllFailedMessage), "error"))

\* The awaited generate_study call returns or raises, and the router runs on
\* to its next await or to its return.
GenerateStudyReturns ==
    /\ pc = "awaiting"
    /\ op = "generate_study_with_fallback"
    /\ \E p \in in_flight : \E b \in BackendOutcomes(p) :
         LET r == generate_study(p, b) IN
         /\ replies' = Append(replies, [provider |-> p, backend |-> b, reply |-> r])
         /\ IF Truthy(effective_provider)
            THEN ExplicitReturns(p, r)
            ELSE AutoReturns(p, r)
    /\ UNCHANGED <<config, op, requested_provider, requested_model,
                   effective_provider, served, reference, database, unit>>

\* complete_prompt, from its entry to its first await or raise
CompletePrompt(hint, model_override) ==
    /\ pc = "idle"
    /\ served < MaxRequests
    /\ served' = served + 1
    /\ reference' = None
    /\ op' = "complete_prompt"
    /\ requested_provider' = hint
    /\ requested_model' = model_override
    /\ effective_provider' = EffectiveProvider(hint)
    /\ LET name == EffectiveProvider(hint)
           provider == get_provider_by_name(name)
           ps == get_available_providers
       IN  IF Truthy(name)
           THEN IF provider = None
                THEN Finish(Raise(UnknownProviderMessage(name)))
                ELSE IF ~is_available(provider)
                THEN Finish(Raise(<<"Provider ", name,
                                    " not configured (API key missing)">>))
                ELSE Await(<<provider>>, 1, "complete_prompt", model_override)
           ELSE IF ps = <<>>
                THEN Finish(Raise(NoProvidersMessage))
                ELSE Await(ps, 1, "complete_prompt", model_override)
    /\ UNCHANGED <<config, replies, database, unit>>

\* Explicit mode that turns to the fallback list after an exception.
ExplicitPromptReturns_Fallback(p, r) ==
    IF ~r.raised
    THEN Finish(ReturnText(r.text, p))
    ELSE IF Len(calls) < 2
         THEN Await(get_available_providers, 1, "complete_prompt", requested_model)
         ELSE Finish(Raise(ProviderException(p)))

\* Explicit mode after the awaited call: its text goes to the caller, and
\* so does its exception.
ExplicitPromptReturns(p, r) ==
    IF r.raised
    THEN Finish(Raise(ProviderException(p)))
    ELSE Finish(ReturnText(r.text, p))

\* The loop without its try statement: the first exception ends the request.
AutoPromptReturns_NoFallback(p, r) ==
    IF ~r.raised
    THEN Finish(ReturnText(r.text, p))
    ELSE Finish(Raise(ProviderException(p)))

\* Auto mode after the awaited call: the first text is returned; after an
\* exception the loop goes on to its next await, or to the raise after it.
AutoPromptReturns(p, r) ==
    IF ~r.raised
    THEN Finish(ReturnText(r.text, p))
    ELSE IF idx < Len(providers)
         THEN Await(providers, idx + 1, "complete_prompt", requested_model)
         ELSE Finish(Raise(AllFailedMessage))

\* The awaited complete_prompt call returns or raises, and the router runs
\* on to its next await, its return or its raise.
CompletePromptReturns ==
    /\ pc = "awaiting"
    /\ op = "complete_prompt"
    /\ \E p \in in_flight : \E b \in PromptOutcomes :
         LET r == provider_complete_prompt(p, b) IN
         /\ replies' = Append(replies,
                [provider |-> p, backend |-> Backend(b, "", "end_turn"),
                 reply |-> [raised |-> r.raised, study |-> NoStudy]])
         /\ IF Truthy(effective_provider)
            THEN ExplicitPromptReturns(p, r)
            ELSE AutoPromptReturns(p, r)
    /\ UNCHANGED <<config, op, requested_provider, requested_model,
                   effective_provider, served, reference, database, unit>>

\* The providers whose call suspends the router's task: OpenRouter awaits
\* its HTTP client, the other three run a synchronous SDK call to its end.
Suspends(p) == p = "openrouter"

CancelledResult ==
    [status |-> "cancelled", study |-> NoStudy, text |-> None, name |-> None,
     error |-> <<"CancelledError">>]

\* A router whose except clause takes the cancellation for a failure of the
\* candidate.
Cancelled_AsFailure(method) ==
    IF ~Truthy(effective_provider) /\ idx < Len(providers)
    THEN Await(providers, idx + 1, method, requested_model)
    ELSE /\ pc' = "cancelled"
         /\ result' = CancelledResult
         /\ in_flight' = {}
         /\ UNCHANGED <<calls, providers, idx>>

\* CancelledError thrown at the router's await: it is a BaseException, so
\* neither the provider's nor the router's except Exception clause catches
\* it, and it leaves the router.
Cancelled(method) ==
    /\ pc' = "cancelled"
    /\ result' = CancelledResult
    /\ in_flight' = {}
    /\ UNCHANGED <<calls, providers, idx>>

\* The request's task is cancelled while it is suspended in a provider call.
Cancel ==
    /\ pc = "awaiting"
    /\ \E p \in in_flight : Suspends(p)
    /\ Cancelled(IF op = "complete_prompt" THEN "complete_prompt"
                 ELSE "generate_study")
    /\ UNCHANGED <<config, op, requested_provider, requested_model,
                   effective_provider, served, reference, replies, database,
                   unit>>

\* The caller has its answer; the process is ready for another request.
NextRequest ==
    /\ pc \in {"done", "cancelled"}
    /\ pc' = "idle"
    /\ op' = None
    /\ requested_provider' = None
    /\ requested_model' = None
    /\ effective_provider' = None
    /\ providers' = <<>>
    /\ idx' = 0
    /\ in_flight' = {}
    /\ calls' = <<>>
    /\ replies' = <<>>
    /\ result' = NoResult
    /\ reference' = None
    /\ UNCHANGED <<config, served, database, unit>>

(***************************************************************************)
(* The result cache and claude_api.generate_study.  Its requests are       *)
(* served by processes that share the database file, so that the steps of  *)
(* two requests interleave at the database calls and at the backend call.  *)
(***************************************************************************)

\* A complete study inside a markdown fence; <fence> stands for the three
\* grave accents of the fence mark.
FencedStudyText ==
    "<fence>json\n{\"purpose\": \"p\", \"context\": \"c\", \"key_themes\": [\"t\"], \"study_flow\": [], \"summary\": \"s\", \"application_questions\": [\"q\"], \"cross_references\": [], \"prayer_prompt\": \"pr\"}\n<fence>"

\* The texts the backend of claude_api.generate_study answers with.
LegacyTexts ==
    {FullStudyText, UnflaggedStudyText, FencedStudyText, EmptyObjectText,
     ProseText}

\* What the messages.create call of claude_api.generate_study meets, and,
\* as write_fails, a complete study whose INSERT raises because another
\* process holds the lock of the database file.
LegacyOutcomes ==
    {Backend("api_error", "", "end_turn"),
     Backend("network_error", "", "end_turn"),
     Backend("write_fails", FullStudyText, "end_turn")}
    \cup {Backend("text", t, "end_turn") : t \in LegacyTexts}

\* strip(), and the text between the first two fence marks without its
\* leading "json", on the texts of the model.
strip_fence(response_text) ==
    IF response_text = FencedStudyText THEN FullStudyText ELSE response_text

\* json.loads on the texts of the model: no repair is attempted.
json_loads(text) ==
    CASE text = FullStudyText ->
            Parsed(Object(FullStudyFields))
      [] text = UnflaggedStudyText ->
            Parsed(Object(WithField(FullStudyFields, "error", FALSE)))
      [] text = FlaggedStudyText ->
            Parsed(Object(WithField(FullStudyFields, "error", TRUE)))
      [] text = EmptyObjectText ->
            Parsed(Object([k \in {} |-> TRUE]))
      [] text = ArrayText ->
            Parsed([type |-> "array", val |-> <<>>])
      [] OTHER -> JSONDecodeError

\* json.dumps on the values json_loads produces.
json_dumps(value) ==
    IF value.type = "array" THEN ArrayText
    ELSE IF DOMAIN value.val = {} THEN EmptyObjectText
    ELSE IF "error" \notin DOMAIN value.val THEN FullStudyText
    ELSE IF value.val["error"] THEN FlaggedStudyText
    ELSE UnflaggedStudyText

\* bool(value): None, an empty dict and an empty list are falsy.
truth(value) == value.type # "none" /\ DOMAIN value.val # {}

\* bool(ANTHROPIC_API_KEY)
ANTHROPIC_API_KEY == keys["claude"]

\* The row of the reference, if the table has one.
HasRow(rows, ref) == \E row \in rows : row.reference = ref

RowOf(rows, ref) == CHOOSE row \in rows : row.reference = ref

\* database.get_cached_study: the stored text parsed, or None.
get_cached_study(ref) ==
    IF HasRow(cache, ref)
    THEN json_loads(RowOf(cache, ref).study_content).value
    ELSE NoStudy

\* INSERT OR IGNORE: a row already there for the reference is kept.
insert_or_replace_Ignore(rows, id, ref, text) ==
    IF HasRow(rows, ref) THEN rows
    ELSE rows \cup {[id |-> id, reference |-> ref, study_content |-> text]}

\* INSERT OR REPLACE under the UNIQUE constraint on reference: the row in
\* conflict is deleted and the new row inserted.
insert_or_replace(rows, id, ref, text) ==
    {row \in rows : row.reference # ref}
        \cup {[id |-> id, reference |-> ref, study_content |-> text]}

\* database.cache_study
cache_study(ref, study_content) ==
    /\ cache' = insert_or_replace(cache, next_id, ref, json_dumps(study_content))
    /\ next_id' = next_id + 1

\* The four error dictionaries of claude_api.generate_study.
LegacyErrorStudy(purpose, context, theme, summary) ==
    Object([error |-> TRUE,
            purpose_statement |-> purpose,
            context |-> context,
            key_themes |-> <<theme>>,
            summary |-> summary,
            observation_questions |-> <<
                [question |-> <<"What does the text say?">>,
                 sample_answer |-> <<"Read the passage carefully.">>] >>,
            interpretation_questions |-> <<
                [question |-> <<"What does it mean?">>,
                 sample_answer |-> <<"Consider the context and meaning.">>] >>,
            application_questions |-> <<
                [question |-> <<"How does it apply to your life?">>] >>,
            cross_references |-> <<>>,
            prayer_prompt |-> <<"Pray for understanding as you read God's Word.">>])

KeyMissingStudy ==
    LegacyErrorStudy(<<"Configure your API key to generate studies">>,
                     <<"API key not configured">>,
                     <<"Please add ANTHROPIC_API_KEY to your .env file">>,
                     <<"Get your API key from console.anthropic.com">>)

ParseErrorStudy ==
    LegacyErrorStudy(<<"Retry generating the study">>,
                     <<"Error parsing AI response: ", "<detail>">>,
                     <<"Error generating study">>,
                     <<"Please try refreshing the page.">>)

APIErrorStudy ==
    LegacyErrorStudy(<<"Check your API configuration">>,
                     <<"API error: ", "<detail>">>,
                     <<"Error connecting to AI service">>,
                     <<"Please check your API key and try again.">>)

UnexpectedErrorStudy ==
    LegacyErrorStudy(<<"Investigate the error and try again">>,
                     <<"Unexpected error: ", "<detail>">>,
                     <<"Error generating study">>,
                     <<"An unexpected error occurred.">>)

\* One request of claude_api.generate_study: where it is, its argument, what
\* its cache lookup found, the document it parsed, what it returned, the
\* backend calls it made and whether it wrote the cache.
NoLegacy == [pc |-> "idle", reference |-> None, row_found |-> FALSE,
             cached |-> NoStudy, study_content |-> NoStudy,
             result |-> NoStudy, backend_calls |-> 0, wrote |-> FALSE]

Event(event, i, ref) == [event |-> event, request |-> i, reference |-> ref]

\* claude_api.generate_study from its entry to its return of the cached
\* value or of the missing-key document, or to its messages.create call.
LegacyGenerateStudy(i, ref) ==
    /\ legacy[i].pc = "idle"
    /\ LET cached == get_cached_study(ref)
           looked == [legacy[i] EXCEPT !.reference = ref,
                                       !.row_found = HasRow(cache, ref),
                                       !.cached = cached]
       IN  IF truth(cached)
           THEN /\ legacy' = [legacy EXCEPT ![i] =
                        [looked EXCEPT !.pc = "done", !.result = cached]]
                /\ history' = history \o <<Event("lookup", i, ref),
                                            Event("return", i, ref)>>
           ELSE IF ~ANTHROPIC_API_KEY
           THEN /\ legacy' = [legacy EXCEPT ![i] =
                        [looked EXCEPT !.pc = "done", !.result = KeyMissingStudy]]
                /\ history' = history \o <<Event("lookup", i, ref),
                                            Event("return", i, ref)>>
           ELSE /\ legacy' = [legacy EXCEPT ![i] =
                        [looked EXCEPT !.pc = "calling", !.backend_calls = 1]]
                /\ history' = Append(history, Event("lookup", i, ref))
    /\ UNCHANGED <<config, router, cache, next_id, unit>>

\* A request that stores the document it returns on the error paths too.
LegacyMessagesCreateReturns_CacheAll(i, b) ==
    /\ legacy[i].pc = "calling"
    /\ LET ref == legacy[i].reference
           parsed == json_loads(strip_fence(b.text))
           returns(study) == [legacy[i] EXCEPT !.pc = "done", !.result = study]
       IN  IF b.kind = "text" /\ parsed.ok
           THEN /\ cache_study(ref, parsed.value)
                /\ legacy' = [legacy EXCEPT ![i] =
                        [returns(parsed.value) EXCEPT
                            !.study_content = parsed.value, !.wrote = TRUE]]
                /\ history' = history \o <<Event("write", i, ref),
                                            Event("return", i, ref)>>
           ELSE /\ cache_study(ref, ParseErrorStudy)
                /\ legacy' = [legacy EXCEPT ![i] =
                        returns(CASE b.kind = "text" -> ParseErrorStudy
                                  [] b.kind = "api_error" -> APIErrorStudy
                                  [] OTHER -> UnexpectedErrorStudy)]
                /\ history' = Append(history, Event("return", i, ref))
    /\ UNCHANGED <<config, router, unit>>

\* The messages.create call of request i ends, and the request runs on to
\* its return.
LegacyMessagesCreateReturns(i, b) ==
    /\ legacy[i].pc = "calling"
    /\ LET ref == legacy[i].reference
           parsed == json_loads(strip_fence(b.text))
           returns(study) == [legacy[i] EXCEPT !.pc = "done", !.result = study]
       IN  IF b.kind = "text" /\ parsed.ok
           THEN /\ cache_study(ref, parsed.value)
                /\ legacy' = [legacy EXCEPT ![i] =
                        [returns(parsed.value) EXCEPT
                            !.study_content = parsed.value, !.wrote = TRUE]]
                /\ history' = history \o <<Event("write", i, ref),
                                            Event("return", i, ref)>>
           ELSE /\ legacy' = [legacy EXCEPT ![i] =
                        returns(CASE b.kind = "text" -> ParseErrorStudy
                                  [] b.kind = "api_error" -> APIErrorStudy
                                  [] OTHER -> UnexpectedErrorStudy)]
                /\ history' = Append(history, Event("return", i, ref))
                /\ UNCHANGED <<cache, next_id>>
    /\ UNCHANGED <<config, router, unit>>

LegacyNext ==
    \/ \E i \in 1..MaxLegacyRequests : \E ref \in References :
         LegacyGenerateStudy(i, ref)
    \/ \E i \in 1..MaxLegacyRequests : \E b \in LegacyOutcomes :
         LegacyMessagesCreateReturns(i, b)

(***************************************************************************)
(* The repair parser, character by character.  A text is a sequence of     *)
(* characters, each a string; <grave> stands for the grave accent of a     *)
(* fence mark, <ZWSP> for U+200B and <BOM> for U+FEFF.  The texts are      *)
(* made of the characters                                                  *)
(*   { } [ ] " : , \ space LF TAB CR <grave> <ZWSP> <BOM>, digits 1 2,     *)
(*   and letters none of which spells true, false, null, NaN or Infinity.  *)
(***************************************************************************)

Quote == "\""

Backslash == "\\"

Grave == "<grave>"

\* The characters json.loads skips between tokens, which are also the
\* characters of the model that str.strip() removes.
Whitespace == {" ", "\n", "\t", "\r"}

\* The characters below U+0020, which json.loads rejects inside a string.
ControlCharacters == {"\n", "\t", "\r"}

Digits == {"1", "2"}

\* A parsed JSON value: a string or number with its characters, an array
\* with its items, an object with its keys and values in turn.
JsonValue(t, s, items) == [t |-> t, s |-> s, items |-> items]

NoValue == JsonValue("none", <<>>, <<>>)

JsonString(s) == JsonValue("str", s, <<>>)

\* A step of the scanner: the value read and the place after it.
Scanned(value, next) == [ok |-> TRUE, value |-> value, next |-> next]

ScanFailed == [ok |-> FALSE, value |-> NoValue, next |-> 0]

RECURSIVE SkipWhitespace(_, _)
SkipWhitespace(text, i) ==
    IF i <= Len(text) /\ text[i] \in Whitespace
    THEN SkipWhitespace(text, i + 1)
    ELSE i

\* The character an escape sequence stands for.
Unescape(c) ==
    CASE c = "n" -> "\n"
      [] c = "t" -> "\t"
      [] c = "r" -> "\r"
      [] OTHER -> c

\* py_scanstring in strict mode, from the character after the opening
\* quote: the decoded content up to the closing quote.
RECURSIVE ScanString(_, _, _)
ScanString(text, i, acc) ==
    IF i > Len(text) THEN ScanFailed
    ELSE IF text[i] = Quote THEN Scanned(JsonString(acc), i + 1)
    ELSE IF text[i] = Backslash
         THEN IF i + 1 <= Len(text) /\ text[i + 1] \in {Quote, Backslash, "n", "t", "r"}
              THEN ScanString(text, i + 2, Append(acc, Unescape(text[i + 1])))
              ELSE ScanFailed
    ELSE IF text[i] \in ControlCharacters THEN ScanFailed
    ELSE ScanString(text, i + 1, Append(acc, text[i]))

RECURSIVE EndOfDigits(_, _)
EndOfDigits(text, i) ==
    IF i <= Len(text) /\ text[i] \in Digits THEN EndOfDigits(text, i + 1) ELSE i

\* dict[key] = value on the keys and values kept in turn: a repeated key
\* keeps its place and takes the new value.
RECURSIVE SetItem(_, _, _)
SetItem(items, key, value) ==
    IF items = <<>> THEN <<key, value>>
    ELSE IF items[1].s = key.s
         THEN <<key, value>> \o SubSeq(items, 3, Len(items))
         ELSE SubSeq(items, 1, 2) \o SetItem(SubSeq(items, 3, Len(items)), key, value)

RECURSIVE ScanOnce(_, _)
RECURSIVE JSONObject(_, _, _)
RECURSIVE JSONArray(_, _, _)

\* json.decoder.JSONObject from the opening quote of a key on.
JSONObject(text, i, items) ==
    IF i > Len(text) \/ text[i] # Quote THEN ScanFailed
    ELSE LET key == ScanString(text, i + 1, <<>>) IN
         IF ~key.ok THEN ScanFailed
         ELSE LET colon == SkipWhitespace(text, key.next) IN
              IF colon > Len(text) \/ text[colon] # ":" THEN ScanFailed
              ELSE LET v == ScanOnce(text, SkipWhitespace(text, colon + 1)) IN
                   IF ~v.ok THEN ScanFailed
                   ELSE LET end == SkipWhitespace(text, v.next)
                            members == SetItem(items, key.value, v.value)
                        IN  IF end > Len(text) THEN ScanFailed
                            ELSE IF text[end] = "}"
                            THEN Scanned(JsonValue("obj", <<>>, members), end + 1)
                            ELSE IF text[end] = ","
                            THEN JSONObject(text, SkipWhitespace(text, end + 1), members)
                            ELSE ScanFailed

\* json.decoder.JSONArray from the first character of an item on.
JSONArray(text, i, items) ==
    LET v == ScanOnce(text, i) IN
    IF ~v.ok THEN ScanFailed
    ELSE LET end == SkipWhitespace(text, v.next)
             elements == Append(items, v.value)
         IN  IF end > Len(text) THEN ScanFailed
             ELSE IF text[end] = "]"
             THEN Scanned(JsonValue("arr", <<>>, elements), end + 1)
             ELSE IF text[end] = ","
             THEN JSONArray(text, SkipWhitespace(text, end + 1), elements)
             ELSE ScanFailed

\* json.scanner: the value that starts at place i.
ScanOnce(text, i) ==
    IF i > Len(text) THEN ScanFailed
    ELSE IF text[i] = Quote THEN ScanString(text, i + 1, <<>>)
    ELSE IF text[i] = "{"
         THEN LET j == SkipWhitespace(text, i + 1) IN
              IF j <= Len(text) /\ text[j] = "}"
              THEN Scanned(JsonValue("obj", <<>>, <<>>), j + 1)
              ELSE JSONObject(text, j, <<>>)
    ELSE IF text[i] = "["
         THEN LET j == SkipWhitespace(text, i + 1) IN
              IF j <= Len(text) /\ text[j] = "]"
              THEN Scanned(JsonValue("arr", <<>>, <<>>), j + 1)
              ELSE JSONArray(text, j, <<>>)
    ELSE IF text[i] \in Digits
         THEN Scanned(JsonValue("num", SubSeq(text, i, EndOfDigits(text, i) - 1), <<>>),
                      EndOfDigits(text, i))
    ELSE ScanFailed

Loaded(value) == [ok |-> TRUE, value |-> value]

\* json.JSONDecodeError out of json.loads
DecodeError == [ok |-> FALSE, value |-> NoValue]

\* json.loads: one value, with whitespace alone before and after it.
loads(text) ==
    LET v == ScanOnce(text, SkipWhitespace(text, 1)) IN
    IF v.ok /\ SkipWhitespace(text, v.next) > Len(text)
    THEN Loaded(v.value)
    ELSE DecodeError

Least(S) == CHOOSE i \in S : \A j \in S : i <= j

Greatest(S) == CHOOSE i \in S : \A j \in S : j <= i

\* The places of character c in text.
Places(text, c) == {i \in 1..Len(text) : text[i] = c}

\* str.count(c)
count(text, c) == Cardinality(Places(text, c))

\* c * max(0, n)
Repeat(c, n) == [i \in 1..(IF n > 0 THEN n ELSE 0) |-> c]

RECURSIVE lstrip(_)
lstrip(text) ==
    IF text # <<>> /\ text[1] \in Whitespace THEN lstrip(Tail(text)) ELSE text

RECURSIVE rstrip(_)
rstrip(text) ==
    IF text # <<>> /\ text[Len(text)] \in Whitespace
    THEN rstrip(SubSeq(text, 1, Len(text) - 1))
    ELSE text

\* str.strip()
strip(text) == rstrip(lstrip(text))

\* str.startswith(prefix)
startswith(text, prefix) ==
    Len(text) >= Len(prefix) /\ SubSeq(text, 1, Len(prefix)) = prefix

\* str.split(sep) for a separator of one character
RECURSIVE split(_, _)
split(text, sep) ==
    IF Places(text, sep) = {} THEN <<text>>
    ELSE <<SubSeq(text, 1, Least(Places(text, sep)) - 1)>>
            \o split(SubSeq(text, Least(Places(text, sep)) + 1, Len(text)), sep)

\* sep.join(lines)
RECURSIVE join(_, _)
join(lines, sep) ==
    IF lines = <<>> THEN <<>>
    ELSE IF Len(lines) = 1 THEN lines[1]
    ELSE lines[1] \o <<sep>> \o join(Tail(lines), sep)

\* The mark of a markdown code block.
FenceMark == <<Grave, Grave, Grave>>

\* A fence handling that takes the last line for the closing fence when no
\* line is a fence mark alone.
without_code_block_LastLine(text) ==
    IF ~startswith(text, FenceMark) THEN text
    ELSE LET lines == Tail(split(text, "\n"))
             closing == {i \in 1..Len(lines) : strip(lines[i]) = FenceMark}
         IN  IF closing = {} THEN join(SubSeq(lines, 1, Len(lines) - 1), "\n")
             ELSE join(SubSeq(lines, 1, Least(closing) - 1), "\n")

\* "Handle markdown code blocks": a text that starts with a fence mark loses
\* its first line, and its lines from the first one that is a fence mark
\* alone.
without_code_block(text) ==
    IF ~startswith(text, FenceMark) THEN text
    ELSE LET lines == Tail(split(text, "\n"))
             closing == {i \in 1..Len(lines) : strip(lines[i]) = FenceMark}
         IN  IF closing = {} THEN join(lines, "\n")
             ELSE join(SubSeq(lines, 1, Least(closing) - 1), "\n")

\* re.search(r'\{[\s\S]*\}', text), group 0; the text itself without a match.
json_match(text) ==
    IF Places(text, "{") # {} /\ Places(text, "}") # {}
          /\ Least(Places(text, "{")) < Greatest(Places(text, "}"))
    THEN SubSeq(text, Least(Places(text, "{")), Greatest(Places(text, "}")))
    ELSE text

\* The loop of fix_newlines_in_strings from place i on.
RECURSIVE FixFrom(_, _, _, _)
FixFrom(json_text, i, in_string, escape_next) ==
    IF i > Len(json_text) THEN <<>>
    ELSE LET char == json_text[i] IN
         IF escape_next
         THEN <<char>> \o FixFrom(json_text, i + 1, in_string, FALSE)
         ELSE IF char = Backslash
         THEN <<char>> \o FixFrom(json_text, i + 1, in_string, TRUE)
         ELSE IF char = Quote
         THEN <<char>> \o FixFrom(json_text, i + 1, ~in_string, FALSE)
         ELSE IF in_string /\ char = "\n"
         THEN <<Backslash, "n">> \o FixFrom(json_text, i + 1, in_string, FALSE)
         ELSE IF in_string /\ char = "\r"
         THEN <<Backslash, "r">> \o FixFrom(json_text, i + 1, in_string, FALSE)
         ELSE IF in_string /\ char = "\t"
         THEN <<Backslash, "t">> \o FixFrom(json_text, i + 1, in_string, FALSE)
         ELSE <<char>> \o FixFrom(json_text, i + 1, in_string, FALSE)

\* A scan that takes the text to begin inside a string.
fix_newlines_in_strings_InString(json_text) == FixFrom(json_text, 1, TRUE, FALSE)

\* An escaping pass that puts a backslash before each control character of
\* a string and keeps the character, without a look at pending escapes.
fix_newlines_in_strings_Keeping(json_text) ==
    LET RECURSIVE Keep(_, _)
        Keep(i, in_string) ==
            IF i > Len(json_text) THEN <<>>
            ELSE IF json_text[i] = Quote
                 THEN <<Quote>> \o Keep(i + 1, ~in_string)
            ELSE IF in_string /\ json_text[i] \in ControlCharacters
                 THEN <<Backslash, json_text[i]>> \o Keep(i + 1, in_string)
            ELSE <<json_text[i]>> \o Keep(i + 1, in_string)
    IN  Keep(1, FALSE)

fix_newlines_in_strings(json_text) == FixFrom(json_text, 1, FALSE, FALSE)

\* replace(BOM, '').replace(ZWSP, '')
without_zero_width(text) ==
    SelectSeq(text, LAMBDA c : c \notin {"<BOM>", "<ZWSP>"})

\* The closing brackets, then the closing braces, that the counts ask for.
closers(text) ==
    Repeat("]", count(text, "[") - count(text, "]"))
        \o Repeat("}", count(text, "{") - count(text, "}"))

\* The "final attempt": the text with its counts of brackets, braces and
\* quotes evened out.
repair_truncated(text) ==
    LET repaired == fix_newlines_in_strings(text)
        closed == repaired \o closers(repaired)
    IN  IF count(closed, Quote) % 2 = 1
        THEN Append(closed, Quote) \o closers(Append(closed, Quote))
        ELSE closed

\* The attempts with the cleaned text tried before the text as it came.
Attempts_CleanedFirst(response_text) ==
    LET stripped == without_code_block(strip(response_text))
        text == json_match(stripped)
    IN  <<without_zero_width(fix_newlines_in_strings(text)),
          stripped,
          join(split(text, "\n"), "\n"),
          repair_truncated(text)>>

\* The text each attempt of parse_json_response hands to json.loads.
Attempts(response_text) ==
    LET stripped == without_code_block(strip(response_text))
        text == json_match(stripped)
    IN  <<stripped,
          without_zero_width(fix_newlines_in_strings(text)),
          join(split(text, "\n"), "\n"),
          repair_truncated(text)>>

\* A parser that answers an empty object when every attempt has failed.
FirstLoaded_Placeholder(attempts) ==
    IF \E k \in 1..Len(attempts) : loads(attempts[k]).ok
    THEN loads(attempts[Least({k \in 1..Len(attempts) : loads(attempts[k]).ok})])
    ELSE Loaded(JsonValue("obj", <<>>, <<>>))

\* The try statements in turn: the first attempt that loads is returned,
\* and the error of the last one is raised.
FirstLoaded(attempts) ==
    IF \E k \in 1..Len(attempts) : loads(attempts[k]).ok
    THEN loads(attempts[Least({k \in 1..Len(attempts) : loads(attempts[k]).ok})])
    ELSE DecodeError

\* parse_json_response on a text given character by character.
parse_json_text(response_text) == FirstLoaded(Attempts(response_text))

(***************************************************************************)
(* Texts parse_json_response is called with                                *)
(***************************************************************************)

\* A JSON string literal with the content s.
Str(s) == <<Quote>> \o s \o <<Quote>>

\* The texts of a sequence, one after the other with ", " between them.
RECURSIVE Listed(_)
Listed(texts) ==
    IF texts = <<>> THEN <<>>
    ELSE IF Len(texts) = 1 THEN texts[1]
    ELSE texts[1] \o <<",", " ">> \o Listed(Tail(texts))

Member(key, value) == Str(key) \o <<":", " ">> \o value

Obj(members) == <<"{">> \o Listed(members) \o <<"}">>

Arr(elements) == <<"[">> \o Listed(elements) \o <<"]">>

\* Contents of string literals: plain, empty, with a brace and a bracket
\* inside, with escapes, and with a zero-width space.
StringContents ==
    {<<"x">>, <<>>, <<"{", "x">>, <<"x", "]">>, <<Backslash, "n">>,
     <<Backslash, Quote>>, <<"x", "<ZWSP>", "y">>}

Leaves == {<<"1">>, <<"1", "2">>} \cup {Str(s) : s \in StringContents}

FewLeaves == {<<"1">>, Str(<<"x">>)}

JsonValues ==
    Leaves
    \cup {Arr(<<>>)}
    \cup {Arr(<<l>>) : l \in FewLeaves}
    \cup {Arr(<<l, m>>) : l \in FewLeaves, m \in FewLeaves}
    \cup {Obj(<<Member(<<"b">>, l)>>) : l \in FewLeaves}
    \cup {Arr(<<Obj(<<Member(<<"b">>, l)>>)>>) : l \in FewLeaves}
    \cup {Obj(<<Member(<<"b">>, Arr(<<l>>))>>) : l \in FewLeaves}

\* Valid JSON object texts.
JsonObjects ==
    {Obj(<<>>)}
    \cup {Obj(<<Member(<<"a">>, v)>>) : v \in JsonValues}
    \cup {Obj(<<Member(<<"a">>, v), Member(<<"c">>, w)>>) :
            v \in JsonValues, w \in FewLeaves \cup {Arr(<<<<"1">>, <<"2">>>>)}}

\* Valid JSON texts: objects, other values, and objects with whitespace
\* around them.
ValidTexts ==
    JsonObjects
    \cup JsonValues
    \cup {<<" ", "\n">> \o Obj(<<Member(<<"a">>, l)>>) \o <<"\n">> : l \in FewLeaves}

\* Texts no stage can read, and texts only a repair can read.
BrokenTexts ==
    {<<>>, <<" ">>, <<"h", "i">>, <<"{">>, <<"}">>, <<"{", "]">>, <<"[", "1">>,
     <<"{", Quote, "a", Quote>>, <<"<BOM>">> \o Obj(<<Member(<<"a">>, <<"1">>)>>),
     <<"{", Quote, "a", Quote, ":", "}">>}

\* An object whose string value holds a line that is a fence mark alone.
FenceLineObject ==
    Obj(<<Member(<<"a">>, Str(<<"x", "\n">> \o FenceMark \o <<"\n", "y">>))>>)

FenceLabels == {<<>>, <<"j", "s", "o", "n">>}

FenceLayouts == {"lines", "one_line", "opening_joined", "closing_joined"}

\* The text t in a markdown code block.
Fenced(t, label, layout) ==
    CASE layout = "lines" ->
           FenceMark \o label \o <<"\n">> \o t \o <<"\n">> \o FenceMark
      [] layout = "one_line" ->
           FenceMark \o label \o <<" ">> \o t \o <<" ">> \o FenceMark
      [] layout = "opening_joined" ->
           FenceMark \o label \o <<" ">> \o t \o <<"\n">> \o FenceMark
      [] OTHER ->
           FenceMark \o label \o <<"\n">> \o t \o FenceMark

FencedTexts ==
    {Obj(<<Member(<<"a">>, l)>>) : l \in Leaves}
    \cup {Arr(<<l>>) : l \in FewLeaves}
    \cup BrokenTexts
    \cup {FenceLineObject}

\* The texts of code blocks that are cut off before their closing fence: an
\* object on one line, one over three lines, and one with a fence line in it.
UnclosedTexts ==
    {Obj(<<Member(<<"a">>, l)>>) : l \in FewLeaves}
    \cup {<<"{", "\n">> \o Member(<<"a">>, <<"1">>) \o <<"\n", "}">>}
    \cup {FenceLineObject}

\* The length of the contents of the string values with control characters.
MaxContent == 3

ContentCharacters == ControlCharacters \cup {"x", "<ZWSP>", "<BOM>"}

Contents ==
    UNION {[1..n -> ContentCharacters] : n \in 1..MaxContent}

\* Prose before and after a JSON object.
Proses ==
    {<<>>, <<"H", "i", ":", " ">>, <<" ", "o", "k">>, <<"\n">>,
     <<"a", " ", "{", "b", "}", " ">>}

ParserInput(kind, input, inner) == [kind |-> kind, input |-> input, inner |-> inner]

ParserInputs ==
    {ParserInput("text", t, t) : t \in ValidTexts \cup BrokenTexts}
    \cup {ParserInput("fenced", Fenced(t, label, layout), t) :
            t \in FencedTexts, label \in FenceLabels, layout \in FenceLayouts}
    \cup {ParserInput("control", Obj(<<Member(<<"a">>, Str(content))>>), content) :
            content \in Contents}
    \cup UNION {{ParserInput("truncated", SubSeq(t, 1, n), t) : n \in 1..(Len(t) - 1)} :
                  t \in JsonObjects}
    \cup UNION {{ParserInput("prose", pre \o t \o post, t) : pre \in Proses, post \in Proses} :
                  t \in JsonObjects}
    \cup UNION {{ParserInput("unclosed",
                             FenceMark \o label \o <<"\n">> \o SubSeq(t, 1, n),
                             SubSeq(t, 1, n)) :
                     label \in FenceLabels, n \in 0..Len(t)} :
                  t \in UnclosedTexts}

\* The length of the texts the escaping scan is run on by itself.
MaxScan == 4

\* The characters the scan tells apart, and one it does not.
ScanCharacters == ControlCharacters \cup {Quote, Backslash, "x"}

ScanTexts == UNION {[1..n -> ScanCharacters] : n \in 0..MaxScan}

(***************************************************************************)
(* Direct calls of the provider-level functions                            *)
(***************************************************************************)

\* The error messages create_error_study is called with.
ErrorMessages == {<<"boom">>, <<>>, AllFailedMessage, NoProvidersMessage}

\* What the backend of a shipped provider does to one call.
ShippedOutcomes(p) == {b \in BackendOutcomes(p) : b.kind # "raises"}

NoUnit == [fn |-> None, provider |-> None, backend |-> Backend(None, "", None),
           message |-> <<>>, raised |-> FALSE, study |-> NoStudy,
           text |-> None, requests |-> 0,
           kind |-> None, input |-> <<>>, inner |-> <<>>,
           returned |-> FALSE, value |-> NoValue, output |-> <<>>]

\* One call of generate_study on the provider named p.
UnitGenerateStudy(p, b) ==
    /\ unit' = [NoUnit EXCEPT !.fn = "generate_study",
                              !.provider = p,
                              !.backend = b,
                              !.raised = generate_study(p, b).raised,
                              !.study = generate_study(p, b).study,
                              !.requests = backend_requests(p, b)]
    /\ UNCHANGED <<config, router, database>>

\* One call of complete_prompt on the provider named p.
UnitCompletePrompt(p, kind) ==
    /\ unit' = [NoUnit EXCEPT !.fn = "complete_prompt",
                              !.provider = p,
                              !.backend = Backend(kind, "", "end_turn"),
                              !.raised = provider_complete_prompt(p, kind).raised,
                              !.text = provider_complete_prompt(p, kind).text,
                              !.requests =
                                  backend_requests(p, Backend(kind, "", "end_turn"))]
    /\ UNCHANGED <<config, router, database>>

\* One call of create_error_study.
UnitCreateErrorStudy(error_message) ==
    /\ unit' = [NoUnit EXCEPT !.fn = "create_error_study",
                              !.message = error_message,
                              !.study = create_error_study(error_message)]
    /\ UNCHANGED <<config, router, database>>

\* One call of parse_json_response on the text the state holds.
ParseJsonResponse ==
    /\ unit.fn = "parse_json_response"
    /\ ~unit.returned
    /\ unit' = [unit EXCEPT !.returned = TRUE,
                            !.raised = ~parse_json_text(unit.input).ok,
                            !.value = parse_json_text(unit.input).value]
    /\ UNCHANGED <<config, router, database>>

ParserNext == ParseJsonResponse

\* One call of fix_newlines_in_strings on the text the state holds.
FixNewlinesInStrings ==
    /\ unit.fn = "fix_newlines_in_strings"
    /\ ~unit.returned
    /\ unit' = [unit EXCEPT !.returned = TRUE,
                            !.output = fix_newlines_in_strings(unit.input)]
    /\ UNCHANGED <<config, router, database>>

ScanNext == FixNewlinesInStrings

UnitNext ==
    \/ \E p \in RegisteredProviders : \E b \in ShippedOutcomes(p) :
         UnitGenerateStudy(p, b)
    \/ \E p \in RegisteredProviders : \E kind \in PromptOutcomes :
         UnitCompletePrompt(p, kind)
    \/ \E error_message \in ErrorMessages : UnitCreateErrorStudy(error_message)

Initially ==
    /\ keys \in [RegisteredProviders -> BOOLEAN]
    /\ LLM_PROVIDER \in ConfiguredValues
    /\ pc = "idle"
    /\ op = None
    /\ requested_provider = None
    /\ requested_model = None
    /\ effective_provider = None
    /\ providers = <<>>
    /\ idx = 0
    /\ in_flight = {}
    /\ calls = <<>>
    /\ replies = <<>>
    /\ result = NoResult
    /\ served = 0
    /\ reference = None
    /\ cache = {}
    /\ next_id = 1
    /\ legacy = [i \in 1..MaxLegacyRequests |-> NoLegacy]
    /\ history = <<>>

Init ==
    /\ Initially
    /\ unit = NoUnit

\* parse_json_response reads its argument alone: every text it is called with
\* is a state to start from.
ParserInit ==
    /\ Initially
    /\ LLM_PROVIDER = "auto"
    /\ \A p \in RegisteredProviders : ~keys[p]
    /\ \E c \in ParserInputs :
         unit = [NoUnit EXCEPT !.fn = "parse_json_response",
                               !.kind = c.kind,
                               !.input = c.input,
                               !.inner = c.inner]

\* The escaping scan reads its argument alone.
ScanInit ==
    /\ Initially
    /\ LLM_PROVIDER = "auto"
    /\ \A p \in RegisteredProviders : ~keys[p]
    /\ \E json_text \in ScanTexts :
         unit = [NoUnit EXCEPT !.fn = "fix_newlines_in_strings",
                               !.kind = "scan",
                               !.input = json_text]

\* The configuration claude_api.generate_study reads is the Anthropic key.
LegacyInit ==
    /\ Init
    /\ LLM_PROVIDER = "auto"
    /\ \A p \in RegisteredProviders \ {"claude"} : ~keys[p]

\* The provider-level functions read the keys alone.
UnitInit ==
    /\ Init
    /\ LLM_PROVIDER = "auto"

Next ==
    \/ \E ref \in RouterReferences : \E hint \in Hints :
         \E model_override \in Models :
           GenerateStudyWithFallback(ref, hint, model_override)
    \/ GenerateStudyReturns
    \/ \E hint \in Hints : \E model_override \in Models :
         CompletePrompt(hint, model_override)
    \/ CompletePromptReturns
    \/ Cancel
    \/ NextRequest

Spec == Init /\ [][Next]_vars

\* The router when every provider call it waits for returns or raises in the
\* end (the transport-level timeouts of the providers' clients see to that).
FairSpec ==
    /\ Init
    /\ [][Next]_vars
    /\ WF_vars(GenerateStudyReturns)
    /\ WF_vars(CompletePromptReturns)

\* The provider-level functions called directly, under every setting of
\* the keys.
UnitSpec == UnitInit /\ [][UnitNext]_vars

\* parse_json_response called once on each of the texts.
ParserSpec == ParserInit /\ [][ParserNext]_vars

\* fix_newlines_in_strings called once on each of the texts.
ScanSpec == ScanInit /\ [][ScanNext]_vars

\* The requests of claude_api.generate_study against one database.
LegacySpec == LegacyInit /\ [][LegacyNext]_vars

(***************************************************************************)
(* Vocabulary of the properties                                            *)
(***************************************************************************)

\* The fallback precedence the documentation states.
StatedOrder == <<"groq", "openrouter", "gemini", "claude">>

\* The stated order restricted to the providers whose key is set.
StatedCandidates == SelectSeq(StatedOrder, LAMBDA name : keys[name])

StudyRequest == pc # "idle" /\ op = "generate_study_with_fallback"

PromptRequest == pc # "idle" /\ op = "complete_prompt"

NoHint == requested_provider \in {None, ""}

\* A structured request with no hint under the configured override "auto".
AutoStudyRequest == StudyRequest /\ NoHint /\ LLM_PROVIDER = "auto"

\* A structured request that names its provider, by hint or by override.
ExplicitStudyRequest == StudyRequest /\ Truthy(effective_provider)

CalledProviders == [i \in 1..Len(calls) |-> calls[i].provider]

IsPrefix(s, t) == Len(s) <= Len(t) /\ \A i \in 1..Len(s) : s[i] = t[i]

\* A reply that is a document whose error flag is false or absent.
SuccessReply(r) ==
    /\ ~r.raised
    /\ r.study.type = "object"
    /\ ("error" \in DOMAIN r.study.val => r.study.val["error"] = FALSE)

\* A reply that is a document whose error flag is true.
ErrorReply(r) ==
    /\ ~r.raised
    /\ r.study.type = "object"
    /\ "error" \in DOMAIN r.study.val
    /\ r.study.val["error"] = TRUE

\* The caller got a document with error=true under the name "error".
ReturnedErrorNamed(message) ==
    /\ pc = "done"
    /\ result.status = "returned"
    /\ result.name = "error"
    /\ result.study.type = "object"
    /\ "error" \in DOMAIN result.study.val
    /\ result.study.val["error"] = TRUE
    /\ result.study.val["summary"] = message

(***************************************************************************)
(* C1: in auto mode the router calls generate_study on the available       *)
(* providers one after another in the order groq, openrouter, gemini,      *)
(* claude; the first reply that is a document with a false or absent error *)
(* flag is returned with the name of its provider, and no later candidate  *)
(* is called after it.                                                     *)
(***************************************************************************)
C1_FirstSuccessWins ==
    AutoStudyRequest =>
        /\ IsPrefix(CalledProviders, StatedCandidates)
        /\ \A i \in 1..Len(calls) : calls[i].method = "generate_study"
        /\ \A i \in 1..Len(replies) :
             SuccessReply(replies[i].reply) =>
                /\ Len(calls) = i
                /\ pc = "done"
                /\ result.status = "returned"
                /\ result.study = replies[i].reply.study
                /\ result.name = StatedCandidates[i]
        /\ (pc = "done" /\ result.name # "error") =>
                /\ replies # <<>>
                /\ SuccessReply(replies[Len(replies)].reply)

\* Two candidates were skipped as unavailable, the first available one
\* failed, and the second one's study was returned under its name.
C1_Witness ==
    /\ AutoStudyRequest
    /\ pc = "done"
    /\ CalledProviders = <<"openrouter", "claude">>
    /\ keys = [groq |-> FALSE, openrouter |-> TRUE, gemini |-> FALSE, claude |-> TRUE]
    /\ ErrorReply(replies[1].reply)
    /\ SuccessReply(replies[2].reply)
    /\ result.name = "claude"
    /\ "error" \notin DOMAIN result.study.val

StudySchemaFields ==
    {"purpose", "context", "key_themes", "study_flow", "summary",
     "application_questions", "cross_references", "prayer_prompt"}

C3_ReturnedDocumentsComplete ==
    ( /\ StudyRequest
      /\ pc = "done"
      /\ result.status = "returned"
      /\ result.study.type = "object" )
    => StudySchemaFields \subseteq DOMAIN result.study.val

(***************************************************************************)
(* C4: in auto mode, when every provider called returned an error          *)
(* document, the router has called each available provider exactly once,   *)
(* in the stated order, and returns under the name "error" an error        *)
(* document whose message says that all providers failed.                  *)
(***************************************************************************)
C4_AllErrorDocuments ==
    ( /\ AutoStudyRequest
      /\ pc = "done"
      /\ StatedCandidates # <<>>
      /\ \A i \in 1..Len(replies) : ErrorReply(replies[i].reply) )
    => /\ CalledProviders = StatedCandidates
       /\ Len(replies) = Len(calls)
       /\ ReturnedErrorNamed(
            <<"All LLM providers failed. Please try again later or check your API keys.">>)

\* Three available providers each returned an error document.
C4_Witness ==
    /\ AutoStudyRequest
    /\ pc = "done"
    /\ CalledProviders = <<"groq", "gemini", "claude">>
    /\ \A i \in 1..3 : ErrorReply(replies[i].reply)
    /\ result.name = "error"

(***************************************************************************)
(* C5: in auto mode a candidate that raises is handled as one that         *)
(* returned an error document: nothing is raised to the caller, the next   *)
(* candidate in the order is called, and after the last candidate the      *)
(* all-providers-failed error document is returned.                        *)
(***************************************************************************)
HandledAsFailure(i) ==
    /\ result.status # "raised"
    /\ i < Len(StatedCandidates) =>
          /\ Len(calls) > i
          /\ calls[i + 1].provider = StatedCandidates[i + 1]
    /\ i = Len(StatedCandidates) =>
          ReturnedErrorNamed(
            <<"All LLM providers failed. Please try again later or check your API keys.">>)

C5_RaiseIsFailure ==
    AutoStudyRequest =>
        \A i \in 1..Len(replies) :
            (replies[i].reply.raised \/ ErrorReply(replies[i].reply))
                => HandledAsFailure(i)

\* The first candidate raised, the second was called, and the last raised
\* too, which ended the request with the aggregate error document.
C5_Witness ==
    /\ AutoStudyRequest
    /\ pc = "done"
    /\ Len(replies) = 3
    /\ replies[1].reply.raised
    /\ ErrorReply(replies[2].reply)
    /\ replies[3].reply.raised
    /\ result.status = "returned"
    /\ result.name = "error"

(***************************************************************************)
(* C6: in explicit mode, when the resolved name is unknown or names a      *)
(* provider that is not available, the router returns under the name       *)
(* "error" an error document that names that provider as unknown or as     *)
(* not configured, and calls generate_study on no provider.                *)
(***************************************************************************)
StatedProviders == {"groq", "openrouter", "gemini", "claude"}

C6_ExplicitUnusable ==
    ExplicitStudyRequest =>
        /\ effective_provider \notin StatedProviders =>
              /\ calls = <<>>
              /\ ReturnedErrorNamed(<<"Unknown provider: ", effective_provider>>)
        /\ (effective_provider \in StatedProviders /\ ~keys[effective_provider]) =>
              /\ calls = <<>>
              /\ ReturnedErrorNamed(
                    <<"Provider ", effective_provider, " not configured">>)

\* The hint names a provider without a key while two others have theirs.
C6_WitnessUnavailable ==
    /\ ExplicitStudyRequest
    /\ requested_provider = "Anthropic"
    /\ effective_provider = "claude"
    /\ keys = [groq |-> TRUE, openrouter |-> TRUE, gemini |-> FALSE, claude |-> FALSE]
    /\ pc = "done"
    /\ calls = <<>>
    /\ result.name = "error"

(***************************************************************************)
(* C7: in explicit mode with a known and available provider the router     *)
(* makes exactly one generate_study call, on that provider, and returns    *)
(* what it returned under that provider's name whatever its error flag;    *)
(* after an error document no other provider is tried and the call is not  *)
(* repeated.                                                               *)
(***************************************************************************)
C7_ExplicitSingleCall ==
    ( /\ ExplicitStudyRequest
      /\ effective_provider \in StatedProviders
      /\ keys[effective_provider] )
    => /\ Len(calls) = 1
       /\ calls[1].provider = effective_provider
       /\ calls[1].method = "generate_study"
       /\ pc = "done" =>
            /\ Len(replies) = 1
            /\ ~replies[1].reply.raised =>
                  /\ result.status = "returned"
                  /\ result.study = replies[1].reply.study
                  /\ result.name = effective_provider

\* The named provider returned an error document, which came back under
\* its name although another provider was available.
C7_Witness ==
    /\ ExplicitStudyRequest
    /\ effective_provider = "gemini"
    /\ keys["gemini"] /\ keys["groq"]
    /\ pc = "done"
    /\ ErrorReply(replies[1].reply)
    /\ CalledProviders = <<"gemini">>
    /\ result.name = "gemini"
    /\ Flagged(result.study)

(***************************************************************************)
(* C8: on the structured and on the free-text path, in either mode, no     *)
(* provider whose key is missing is ever called, and the auto-mode         *)
(* candidate list is the stated order restricted to the available          *)
(* providers.                                                              *)
(***************************************************************************)
C8_OnlyAvailableCalled ==
    /\ \A i \in 1..Len(calls) : keys[calls[i].provider]
    /\ \A p \in in_flight : keys[p]
    /\ (pc # "idle" /\ ~Truthy(effective_provider)) => providers = StatedCandidates

\* A free-text request in auto mode went past two providers without a key
\* and through both providers that have one.
C8_Witness ==
    /\ PromptRequest
    /\ ~Truthy(effective_provider)
    /\ keys = [groq |-> FALSE, openrouter |-> TRUE, gemini |-> FALSE, claude |-> TRUE]
    /\ providers = <<"openrouter", "claude">>
    /\ CalledProviders = <<"openrouter", "claude">>
    /\ pc = "done"

(***************************************************************************)
(* C9: for one request at most one provider call is outstanding at any     *)
(* time: a candidate's call starts only after the call before it returned  *)
(* or raised (a cancelled call ends with the request, without a reply).    *)
(***************************************************************************)
C9_OneCallOutstanding ==
    /\ Cardinality(in_flight) <= 1
    /\ Len(calls) - Len(replies) =
          Cardinality(in_flight) + (IF pc = "cancelled" THEN 1 ELSE 0)
    /\ in_flight # {} => pc = "awaiting" /\ in_flight = {calls[Len(calls)].provider}

\* The third candidate's call is outstanding after two finished calls.
C9_Witness ==
    /\ pc = "awaiting"
    /\ Len(calls) = 3
    /\ Len(replies) = 2
    /\ in_flight = {"gemini"}

(***************************************************************************)
(* C10: in auto mode with no provider available the router returns under   *)
(* the name "error" an error document saying that no provider is           *)
(* configured, and calls generate_study on no provider.                    *)
(***************************************************************************)
C10_NoProviderConfigured ==
    (AutoStudyRequest /\ \A p \in StatedProviders : ~keys[p])
    => /\ calls = <<>>
       /\ ReturnedErrorNamed(
            <<"No LLM providers configured. Please add at least one API key ",
              "(GROQ_API_KEY, OPENROUTER_API_KEY, GOOGLE_API_KEY, or ANTHROPIC_API_KEY) to your .env file.">>)

\* No key is set and a request without a hint has been answered.
C10_Witness ==
    /\ AutoStudyRequest
    /\ \A p \in StatedProviders : ~keys[p]
    /\ pc = "done"
    /\ result.name = "error"
    /\ replies = <<>>

(***************************************************************************)
(* Vocabulary of the properties of the provider-level functions            *)
(***************************************************************************)

\* The last direct call was generate_study and met one of the four stated
\* failures: no key, a failed transport call, a non-success status, or a
\* text the repair parser gives up on.
StatedFailure ==
    /\ unit.fn = "generate_study"
    /\ \/ ~keys[unit.provider]
       \/ unit.backend.kind \in {"network_error", "status_error"}
       \/ unit.backend.kind = "text" /\ unit.backend.text = "not json"

\* The names a provider goes by: its registry name, its display name and
\* the vendor name of its credential.
NamesOf(p) ==
    CASE p = "groq" -> {"groq", "Groq"}
      [] p = "openrouter" -> {"openrouter", "OpenRouter"}
      [] p = "gemini" -> {"gemini", "Gemini", "Google"}
      [] p = "claude" -> {"claude", "Claude", "Anthropic"}

IdentifiesProvider(message, p) ==
    \E k \in DOMAIN message : message[k] \in NamesOf(p)

\* The message says what went wrong: the exception's text, the status, or
\* that the key is not configured.
CarriesDetail(message) ==
    \E k \in DOMAIN message :
        message[k] \in {"<detail>", "<status>", " API key not configured"}

\* The last direct call returned a document with error=true.
ReturnedErrorDocument ==
    /\ ~unit.raised
    /\ unit.study.type = "object"
    /\ "error" \in DOMAIN unit.study.val
    /\ unit.study.val["error"] = TRUE
    /\ "summary" \in DOMAIN unit.study.val

\* The Claude backend reported a cut-off answer and the parser gave up.
TruncationFailure ==
    /\ unit.provider = "claude"
    /\ keys["claude"]
    /\ unit.backend.kind = "text"
    /\ unit.backend.stop = "max_tokens"

TruncationMessage ==
    <<"Response truncated (", "<n>",
      " tokens). Try a shorter passage or fewer verses.">>

(***************************************************************************)
(* C11 as stated: in each of the four stated failures generate_study       *)
(* returns a document with error=true whose message identifies the         *)
(* provider and the error detail.                                          *)
(***************************************************************************)
C11_AlwaysIdentified ==
    StatedFailure =>
        /\ ReturnedErrorDocument
        /\ IdentifiesProvider(unit.study.val["summary"], unit.provider)
        /\ CarriesDetail(unit.study.val["summary"])

(***************************************************************************)
(* C11: in each of the four stated failures generate_study raises nothing  *)
(* and returns a document with error=true; its message identifies the      *)
(* provider and the error detail, except when the Claude backend reported  *)
(* a cut-off answer and the parser failed, where it is the truncation      *)
(* message, which names neither.                                           *)
(***************************************************************************)
C11_ErrorDocumentReturned ==
    StatedFailure =>
        /\ ReturnedErrorDocument
        /\ IF TruncationFailure
           THEN unit.study.val["summary"] = TruncationMessage
           ELSE /\ IdentifiesProvider(unit.study.val["summary"], unit.provider)
                /\ CarriesDetail(unit.study.val["summary"])

\* An available provider's transport call failed and an error document
\* carrying the registry name came back.
C11_Witness ==
    /\ unit.fn = "generate_study"
    /\ unit.provider = "groq"
    /\ keys["groq"]
    /\ unit.backend.kind = "network_error"
    /\ ReturnedErrorDocument
    /\ unit.study.val["summary"] = <<"groq", " error: ", "<detail>">>

C16_EveryListFilled ==
    unit.fn = "create_error_study" =>
        /\ unit.study.type = "object"
        /\ StudySchemaFields \subseteq DOMAIN unit.study.val
        /\ unit.study.val["error"] = TRUE
        /\ \A f \in {"key_themes", "study_flow", "application_questions",
                      "cross_references"} : Len(unit.study.val[f]) >= 1
        /\ unit.study.val["purpose"] = <<"Error: ">> \o unit.message
        /\ unit.study.val["summary"] = unit.message

(***************************************************************************)
(* C16: create_error_study(m) has error=true, every field of the schema,   *)
(* one placeholder entry in key_themes, in study_flow and in               *)
(* application_questions, an empty cross_references list, and m in its     *)
(* purpose (after "Error: ") and as its summary.                           *)
(***************************************************************************)
C16_ErrorStudyShape ==
    unit.fn = "create_error_study" =>
        /\ unit.study.type = "object"
        /\ StudySchemaFields \subseteq DOMAIN unit.study.val
        /\ unit.study.val["error"] = TRUE
        /\ \A f \in {"key_themes", "study_flow", "application_questions"} :
              Len(unit.study.val[f]) = 1
        /\ unit.study.val["cross_references"] = <<>>
        /\ unit.study.val["purpose"] = <<"Error: ">> \o unit.message
        /\ unit.study.val["summary"] = unit.message

\* An error document made from a message of one piece.
C16_Witness ==
    /\ unit.fn = "create_error_study"
    /\ unit.message = <<"boom">>
    /\ unit.study.val["summary"] = <<"boom">>

(***************************************************************************)
(* Vocabulary of the properties of the free-text path                      *)
(***************************************************************************)

\* A free-text request with no hint under a configuration that names no
\* provider.
AutoPromptRequest ==
    PromptRequest /\ NoHint /\ LLM_PROVIDER \in {"auto", "AUTO", ""}

RepliedProviders == [i \in 1..Len(replies) |-> replies[i].provider]

\* The calls are answered one by one, in the order they were made.
AnsweredInOrder ==
    /\ IsPrefix(RepliedProviders, CalledProviders)
    /\ Len(calls) <= Len(replies) + 1
    /\ pc = "awaiting" => Len(calls) = Len(replies) + 1
    /\ pc = "done" => Len(calls) = Len(replies)

(***************************************************************************)
(* C13: in auto mode complete_prompt calls the available providers in the  *)
(* stated order, goes on to the next one only after a call that raised,    *)
(* returns the text and name of the first call that did not raise, and     *)
(* raises only when every available provider has been called and has       *)
(* raised, or none is available.                                           *)
(***************************************************************************)
C13_AutoPromptFallback ==
    AutoPromptRequest =>
        /\ IsPrefix(CalledProviders, StatedCandidates)
        /\ AnsweredInOrder
        /\ \A i \in 1..(Len(calls) - 1) : replies[i].reply.raised
        /\ pc = "awaiting" => \A i \in 1..Len(replies) : replies[i].reply.raised
        /\ pc = "done" => result.status \in {"returned", "raised"}
        /\ (pc = "done" /\ result.status = "returned") =>
              /\ Len(replies) >= 1
              /\ ~replies[Len(replies)].reply.raised
              /\ result.name = CalledProviders[Len(calls)]
              /\ result.text = "<text>"
        /\ (pc = "done" /\ result.status = "raised") =>
              /\ CalledProviders = StatedCandidates
              /\ \A i \in 1..Len(replies) : replies[i].reply.raised

\* Two candidates raised and the third one's text was returned.
C13_Witness ==
    /\ AutoPromptRequest
    /\ pc = "done"
    /\ Len(calls) = 3
    /\ replies[1].reply.raised /\ replies[2].reply.raised
    /\ result.status = "returned"
    /\ result.name = "gemini"

\* The stated alias table on the hints of the model.
StatedResolution(hint) ==
    CASE hint \in {"groq", "GROQ"} -> "groq"
      [] hint = "openrouter" -> "openrouter"
      [] hint \in {"gemini", "google"} -> "gemini"
      [] hint \in {"claude", "Anthropic"} -> "claude"
      [] hint = "auto" -> "auto"
      [] hint \in {"mistral", "Mistral"} -> "mistral"

\* The provider the request names, or None in auto mode.
StatedName ==
    IF ~NoHint THEN StatedResolution(requested_provider)
    ELSE CASE LLM_PROVIDER \in {"auto", "AUTO", ""} -> None
           [] LLM_PROVIDER = "Gemini" -> "gemini"
           [] OTHER -> LLM_PROVIDER

\* The providers the request may call, in order.
StatedAttempts ==
    IF StatedName = None THEN StatedCandidates
    ELSE IF StatedName \in StatedProviders /\ keys[StatedName]
         THEN <<StatedName>>
         ELSE <<>>

\* Each structured call returned a document with or without the error flag,
\* or raised.
PlainReplies ==
    op = "generate_study_with_fallback" =>
        \A i \in 1..Len(replies) :
            \/ replies[i].reply.raised
            \/ SuccessReply(replies[i].reply)
            \/ ErrorReply(replies[i].reply)

\* Call i failed: it raised, or (structured path) gave an error document.
FailedCall(i) ==
    IF op = "complete_prompt"
    THEN replies[i].reply.raised
    ELSE ~SuccessReply(replies[i].reply)

\* Failure reaches the caller as a raised error on the free-text path and as
\* an error document, or the provider's own exception, on the structured
\* path.
FailureReported ==
    IF op = "complete_prompt"
    THEN result.status = "raised"
    ELSE \/ result.status = "raised"
         \/ /\ result.status = "returned"
            /\ ErrorReply([raised |-> FALSE, study |-> result.study])

(***************************************************************************)
(* C14: generate_study_with_fallback and complete_prompt follow one        *)
(* sequencing, a function of the hint, the configured override, the        *)
(* availabilities and the pattern of success and failure alone: the calls  *)
(* are a prefix of the same candidate list, the next call is made only     *)
(* after a failed one, the request ends at the first provider that         *)
(* succeeds, and otherwise ends in failure after the whole list; only the  *)
(* report of failure differs.                                              *)
(***************************************************************************)
C14_SameSequencing ==
    (pc # "idle" /\ PlainReplies) =>
        /\ IsPrefix(CalledProviders, StatedAttempts)
        /\ AnsweredInOrder
        /\ \A i \in 1..(Len(calls) - 1) : FailedCall(i)
        /\ pc = "done" =>
              IF Len(replies) > 0 /\ ~FailedCall(Len(replies))
              THEN /\ result.status = "returned"
                   /\ result.name = CalledProviders[Len(calls)]
              ELSE /\ CalledProviders = StatedAttempts
                   /\ FailureReported

\* A free-text request that ended at its second candidate, as a structured
\* request with the same pattern does.
C14_Witness ==
    /\ op = "complete_prompt"
    /\ StatedName = None
    /\ pc = "done"
    /\ Len(calls) = 2
    /\ FailedCall(1) /\ ~FailedCall(2)
    /\ result.name = StatedCandidates[2]

(***************************************************************************)
(* C15: a hint given by the caller is lower-cased and looked up in the     *)
(* alias table before the provider is resolved: anthropic and claude give  *)
(* claude, google and gemini give gemini, openrouter and groq give         *)
(* themselves, and any other hint is passed on lower-cased.                *)
(***************************************************************************)
C15_HintNormalised ==
    (pc # "idle" /\ ~NoHint) =>
        /\ effective_provider = StatedResolution(requested_provider)
        /\ \A i \in 1..Len(calls) :
              calls[i].provider = StatedResolution(requested_provider)
        /\ ( /\ StatedResolution(requested_provider) \in StatedProviders
             /\ keys[StatedResolution(requested_provider)] ) => Len(calls) = 1

\* The hint Anthropic led to a call of the claude provider.
C15_Witness ==
    /\ requested_provider = "Anthropic"
    /\ Len(calls) = 1
    /\ calls[1].provider = "claude"

(***************************************************************************)
(* Vocabulary of the properties of the result cache                        *)
(***************************************************************************)

\* Two JSON values are the same document.
SameDocument(a, b) ==
    /\ a.type = b.type
    /\ DOMAIN a.val = DOMAIN b.val
    /\ \A k \in DOMAIN a.val : a.val[k] = b.val[k]

RowsOf(ref) == {row \in cache : row.reference = ref}

\* The place in the history of an event of request i.
Happened(event, i) ==
    \E k \in 1..Len(history) :
        history[k].event = event /\ history[k].request = i

EventAt(event, i) ==
    CHOOSE k \in 1..Len(history) :
        history[k].event = event /\ history[k].request = i

\* The places in the history where the entry of ref was written.
WritesOf(ref) ==
    {k \in 1..Len(history) :
        history[k].event = "write" /\ history[k].reference = ref}

\* The request that wrote the entry of ref last.
LastWriter(ref) ==
    history[CHOOSE k \in WritesOf(ref) : \A m \in WritesOf(ref) : m <= k].request

LegacyRequests == 1..MaxLegacyRequests

(***************************************************************************)
(* C17 as stated: a finished generate_study_with_fallback request whose    *)
(* reference has a cache entry made no provider call and returned the      *)
(* entry, and one that returned a provider's non-error document left that  *)
(* document in the cache under the reference.                              *)
(***************************************************************************)
C17_RouterUsesCache ==
    (StudyRequest /\ pc = "done") =>
        /\ RowsOf(reference) # {} =>
              /\ calls = <<>>
              /\ result.status = "returned"
              /\ \E row \in RowsOf(reference) :
                    SameDocument(result.study, json_loads(row.study_content).value)
        /\ ( /\ result.status = "returned"
             /\ result.name # "error"
             /\ SuccessReply([raised |-> FALSE, study |-> result.study]) ) =>
              \E row \in RowsOf(reference) :
                  SameDocument(result.study, json_loads(row.study_content).value)

(***************************************************************************)
(* C18 as stated: a claude_api.generate_study request whose reference had  *)
(* a cache entry at its lookup returns that entry, makes no backend call   *)
(* and writes nothing, whatever the stored value.                          *)
(***************************************************************************)
C18_StoredEntryServed ==
    \A i \in LegacyRequests :
        (legacy[i].pc # "idle" /\ legacy[i].row_found) =>
            /\ legacy[i].pc = "done"
            /\ SameDocument(legacy[i].result, legacy[i].cached)
            /\ legacy[i].backend_calls = 0
            /\ ~legacy[i].wrote

(***************************************************************************)
(* C19 as stated: once a request has returned a document it generated for  *)
(* a reference, a request for that reference that starts later, with no    *)
(* write of the entry in between, returns an equal document and makes no   *)
(* backend call.                                                           *)
(***************************************************************************)
C19_LaterCallServedFromCache ==
    \A i, j \in LegacyRequests :
        ( /\ i # j
          /\ legacy[i].pc = "done" /\ legacy[i].wrote
          /\ Happened("lookup", j)
          /\ legacy[j].reference = legacy[i].reference
          /\ EventAt("return", i) < EventAt("lookup", j)
          /\ \A k \in WritesOf(legacy[i].reference) :
                ~(EventAt("return", i) < k /\ k < EventAt("lookup", j)) )
        => /\ legacy[j].pc = "done"
           /\ SameDocument(legacy[j].result, legacy[i].result)
           /\ legacy[j].backend_calls = 0

\* Requests i and j for one reference both found no entry and both went on
\* to the backend.
BothMissed(i, j) ==
    /\ i # j
    /\ legacy[i].pc # "idle" /\ legacy[j].pc # "idle"
    /\ legacy[i].reference = legacy[j].reference
    /\ ~legacy[i].row_found /\ ~legacy[j].row_found
    /\ legacy[i].backend_calls = 1 /\ legacy[j].backend_calls = 1

(***************************************************************************)
(* C20: when two requests for one reference both miss the cache and go on  *)
(* to compute, neither waits for the other, each that parsed a document    *)
(* returns the document it parsed itself, and from the first write on the  *)
(* cache holds exactly one entry for the reference, the document of the    *)
(* request that wrote last.                                                *)
(***************************************************************************)
C20_LastWriteWins ==
    \A i, j \in LegacyRequests :
        BothMissed(i, j) =>
            /\ legacy[i].pc = "calling" =>
                  ENABLED (\E b \in LegacyOutcomes : LegacyMessagesCreateReturns(i, b))
            /\ legacy[i].wrote =>
                  /\ legacy[i].pc = "done"
                  /\ SameDocument(legacy[i].result, legacy[i].study_content)
            /\ (legacy[i].wrote \/ legacy[j].wrote) =>
                  /\ Cardinality(RowsOf(legacy[i].reference)) = 1
                  /\ \A row \in RowsOf(legacy[i].reference) :
                        row.study_content =
                            json_dumps(legacy[LastWriter(legacy[i].reference)].study_content)

\* Two overlapping requests for one reference parsed different documents,
\* and the entry is the document of the second writer.
C20_Witness ==
    /\ BothMissed(1, 2)
    /\ legacy[1].wrote /\ legacy[2].wrote
    /\ EventAt("lookup", 2) < EventAt("write", 1)
    /\ EventAt("write", 1) < EventAt("write", 2)
    /\ ~SameDocument(legacy[1].result, legacy[2].result)
    /\ RowsOf(legacy[1].reference) =
          {[id |-> 2, reference |-> legacy[1].reference,
            study_content |-> json_dumps(legacy[2].result)]}

(***************************************************************************)
(* C30: when the Claude backend stops at the length limit, generate_study  *)
(* runs the repair parser on the text; a text the parser recovers is       *)
(* returned as a normal document, and a text it gives up on yields an      *)
(* error document whose message is the truncation message, not the         *)
(* parse-failure message.                                                  *)
(***************************************************************************)
C30_TruncationHandled ==
    ( /\ unit.fn = "generate_study"
      /\ unit.provider = "claude"
      /\ keys["claude"]
      /\ unit.backend.kind = "text"
      /\ unit.backend.stop = "max_tokens" )
    => /\ ~unit.raised
       /\ unit.backend.text = "{\"purpose\": \"p\", \"key_themes\": [\"t\"" =>
             /\ unit.study.type = "object"
             /\ DOMAIN unit.study.val = {"purpose", "key_themes"}
             /\ unit.study.val["purpose"] = <<"p">>
             /\ unit.study.val["key_themes"] = << <<"t">> >>
       /\ unit.backend.text = "not json" =>
             /\ ReturnedErrorDocument
             /\ unit.study.val["summary"] = TruncationMessage
             /\ unit.study.val["purpose"] = <<"Error: ">> \o TruncationMessage

\* A cut-off answer that the parser could not recover.
C30_Witness ==
    /\ unit.fn = "generate_study"
    /\ unit.provider = "claude"
    /\ keys["claude"]
    /\ unit.backend.stop = "max_tokens"
    /\ unit.backend.text = "not json"
    /\ ReturnedErrorDocument

(***************************************************************************)
(* Vocabulary of the properties of cancellation and termination            *)
(***************************************************************************)

\* A request of either kind with no hint under a configuration that names
\* no provider.
AutoRequest ==
    pc # "idle" /\ NoHint /\ LLM_PROVIDER \in {"auto", "AUTO", ""}

(***************************************************************************)
(* C21: in auto mode a step that ends the wait for a candidate without a   *)
(* reply of that candidate is the cancellation leaving the router: no      *)
(* reply is recorded for the candidate, no further candidate is called     *)
(* then or later, and the request ends cancelled with no document.         *)
(***************************************************************************)
C21_CancellationPropagates ==
    /\ [][(AutoRequest /\ pc = "awaiting" /\ replies' = replies)
            => /\ pc' = "cancelled"
               /\ calls' = calls
               /\ result'.status = "cancelled"]_vars
    /\ [][(AutoRequest /\ pc = "cancelled") => pc' = "idle"]_vars
    /\ [](AutoRequest /\ pc = "cancelled"
            => /\ result.status = "cancelled"
               /\ result.study.type = "none"
               /\ result.text = "<None>"
               /\ in_flight = {}
               /\ Len(calls) = Len(replies) + 1
               /\ \A i \in 1..Len(replies) : replies[i].provider = calls[i].provider)

\* The second candidate's call was outstanding when the request was
\* cancelled.
C21_Witness ==
    /\ AutoRequest
    /\ pc = "cancelled"
    /\ Len(calls) = 2
    /\ calls[2].provider = "openrouter"
    /\ Len(replies) = 1
    /\ keys["gemini"]

(***************************************************************************)
(* C22: when every provider call returns or raises in the end, a           *)
(* generate_study_with_fallback request that waits for a provider comes to *)
(* its end (its return, or its cancellation); it calls no provider twice   *)
(* and none that is unavailable; and as long as the call it waits for has  *)
(* not returned, the request does not complete and calls no further        *)
(* candidate.                                                              *)
(***************************************************************************)
C22_BoundedFallback ==
    /\ (StudyRequest /\ pc = "awaiting") ~> (pc \in {"done", "cancelled"})
    /\ [](StudyRequest =>
            /\ \A i, j \in 1..Len(calls) :
                  calls[i].provider = calls[j].provider => i = j
            /\ \A i \in 1..Len(calls) : keys[calls[i].provider]
            /\ Len(calls) <= Cardinality({p \in StatedProviders : keys[p]}))
    /\ [][(StudyRequest /\ pc = "awaiting" /\ replies' = replies)
            => (calls' = calls /\ pc' \in {"awaiting", "cancelled"})]_vars

\* A request that called all four providers, each once, and completed.
C22_Witness ==
    /\ StudyRequest
    /\ pc = "done"
    /\ CalledProviders = <<"groq", "openrouter", "gemini", "claude">>
    /\ Len(replies) = 4

(***************************************************************************)
(* parse_json_response                                                     *)
(***************************************************************************)

\* parse_json_response has been called on the text of the state and is back.
ParseReturned == unit.fn = "parse_json_response" /\ unit.returned

\* The characters of a text.
CharactersOf(text) == {text[i] : i \in 1..Len(text)}

\* C23: for every text that is valid JSON, parse_json_response returns the
\* value json.loads gives for that text: no repair stage changes the result.
C23_ValidJsonUnchanged ==
    (ParseReturned /\ loads(unit.input).ok)
        => (~unit.raised /\ unit.value = loads(unit.input).value)

\* A valid object with a zero-width space in a string value has been parsed.
C23_Witness ==
    /\ ParseReturned
    /\ unit.kind = "text"
    /\ loads(unit.input).ok
    /\ loads(unit.input).value.t = "obj"
    /\ "<ZWSP>" \in CharactersOf(unit.input)

\* C24: for every text and every fenced wrapping of it (with or without a
\* language label, fences on their own lines or on the line of the content),
\* parse_json_response on the wrapped text gives the result, or the failure,
\* it gives on the text alone.
C24_FenceTransparent ==
    (ParseReturned /\ unit.kind = "fenced")
        => /\ unit.raised = ~parse_json_text(unit.inner).ok
           /\ unit.value = parse_json_text(unit.inner).value

\* The object {"a": s} as json.loads returns it.
ObjectWithA(s) == JsonValue("obj", <<>>, <<JsonString(<<"a">>), JsonString(s)>>)

\* C25: for every JSON object text that is valid but for literal newline,
\* carriage-return or tab characters inside a string value,
\* parse_json_response succeeds and the string value recovered is the
\* original content, character for character.
C25_ControlCharactersKept ==
    (/\ ParseReturned
     /\ unit.kind = "control"
     /\ CharactersOf(unit.inner) \cap ControlCharacters # {})
        => (~unit.raised /\ unit.value = ObjectWithA(unit.inner))

\* The string literals of a text from place i on, each with the places of its
\* quotes; a literal the text ends in has its closing quote past the end.
RECURSIVE Literals(_, _, _, _)
Literals(text, i, open, escaped) ==
    IF i > Len(text)
    THEN IF open = 0 THEN {} ELSE {[from |-> open, to |-> Len(text) + 1]}
    ELSE IF open = 0
         THEN Literals(text, i + 1, IF text[i] = Quote THEN i ELSE 0, FALSE)
    ELSE IF escaped THEN Literals(text, i + 1, open, FALSE)
    ELSE IF text[i] = Backslash THEN Literals(text, i + 1, open, TRUE)
    ELSE IF text[i] = Quote
         THEN {[from |-> open, to |-> i]} \cup Literals(text, i + 1, 0, FALSE)
    ELSE Literals(text, i + 1, open, FALSE)

\* The literal is the key of a member.
IsKey(text, lit) ==
    LET j == SkipWhitespace(text, lit.to + 1)
    IN  j <= Len(text) /\ text[j] = ":"

StringValues(text) == {lit \in Literals(text, 1, 0, FALSE) : ~IsKey(text, lit)}

\* The first n characters of the text end inside its last string value.
CutInFinalString(text, n) ==
    \E lit \in StringValues(text) :
        /\ \A other \in StringValues(text) : other.from <= lit.from
        /\ lit.from <= n
        /\ n < lit.to

\* The closers of the containers open at the end of a text, innermost first.
RECURSIVE OpenContainers(_, _, _, _, _)
OpenContainers(text, i, in_string, escaped, stack) ==
    IF i > Len(text) THEN stack
    ELSE IF in_string
         THEN IF escaped THEN OpenContainers(text, i + 1, TRUE, FALSE, stack)
              ELSE IF text[i] = Backslash
                   THEN OpenContainers(text, i + 1, TRUE, TRUE, stack)
              ELSE OpenContainers(text, i + 1, text[i] # Quote, FALSE, stack)
    ELSE IF text[i] = Quote THEN OpenContainers(text, i + 1, TRUE, FALSE, stack)
    ELSE IF text[i] = "{" THEN OpenContainers(text, i + 1, FALSE, FALSE, <<"}">> \o stack)
    ELSE IF text[i] = "[" THEN OpenContainers(text, i + 1, FALSE, FALSE, <<"]">> \o stack)
    ELSE IF text[i] \in {"}", "]"} /\ stack # <<>>
         THEN OpenContainers(text, i + 1, FALSE, FALSE, Tail(stack))
    ELSE OpenContainers(text, i + 1, FALSE, FALSE, stack)

MissingClosers(text) == OpenContainers(text, 1, FALSE, FALSE, <<>>)

\* C26: for every valid JSON object text cut inside its final string value,
\* parse_json_response returns a document instead of failing: the closing
\* quote comes before the closers, which so lie outside the string.
C26_UnterminatedStringRepaired ==
    (/\ ParseReturned
     /\ unit.kind = "truncated"
     /\ CutInFinalString(unit.inner, Len(unit.input)))
        => ~unit.raised

\* The text with the closers of its open containers after it.
Closed(text) == text \o MissingClosers(text)

\* The text stops after a complete value: every string is terminated, a
\* container is open, and the closers alone make it a JSON text.
CutAfterValue(text) ==
    /\ \A lit \in Literals(text, 1, 0, FALSE) : lit.to <= Len(text)
    /\ MissingClosers(text) # <<>>
    /\ loads(Closed(text)).ok

\* C27: for every valid JSON object text cut after a complete value, with
\* containers left open at any nesting, parse_json_response returns the
\* object formed by the input and the missing closers.
C27_OpenContainersClosed ==
    (/\ ParseReturned
     /\ unit.kind = "truncated"
     /\ CutAfterValue(unit.input))
        => (~unit.raised /\ unit.value = loads(Closed(unit.input)).value)

\* The text has a span from a first opening brace to a last closing brace.
HasSpan(text) ==
    /\ Places(text, "{") # {}
    /\ Places(text, "}") # {}
    /\ Least(Places(text, "{")) < Greatest(Places(text, "}"))

\* The later stages at work on the candidate as it is.
LaterStages(candidate) ==
    FirstLoaded(<<candidate,
                  without_zero_width(fix_newlines_in_strings(candidate)),
                  candidate,
                  repair_truncated(candidate)>>)

\* C28: when the direct parse fails the candidate is narrowed to the span
\* from the first opening brace to the last closing brace, so that for prose,
\* one valid JSON object and more prose the result is that object; a text
\* without such a span goes to the later stages unchanged.
C28_ProseDiscarded ==
    /\ (ParseReturned /\ unit.kind = "prose" /\ ~loads(unit.input).ok)
           => (~unit.raised /\ unit.value = loads(unit.inner).value)
    /\ (ParseReturned /\ ~HasSpan(without_code_block(strip(unit.input))))
           => /\ unit.raised = ~LaterStages(without_code_block(strip(unit.input))).ok
              /\ unit.value = LaterStages(without_code_block(strip(unit.input))).value

\* The attempts on the text of the state that json.loads can read.
Readable == {k \in 1..Len(Attempts(unit.input)) : loads(Attempts(unit.input)[k]).ok}

\* C29: when every parse attempt fails, parse_json_response raises the JSON
\* decode error to its caller; what it returns is always the value an attempt
\* produced, never an empty or placeholder document in place of a failure.
C29_FailureRaised ==
    ParseReturned =>
        /\ (Readable = {}) => (unit.raised /\ unit.value = NoValue)
        /\ ~unit.raised =>
              \E k \in Readable : unit.value = loads(Attempts(unit.input)[k]).value

\* A text no attempt can read has been given, and the call has raised.
C29_Witness ==
    /\ ParseReturned
    /\ unit.input = <<"h", "i">>
    /\ Readable = {}
    /\ unit.raised

(***************************************************************************)
(* The model of a call, and the agreement of name and document             *)
(***************************************************************************)

\* C31: a provider call uses the model override when one is given and the
\* provider's default model otherwise, an empty override counting as not
\* given; every call of a request, in auto mode every candidate's, gets the
\* override the request came with.
C31_ModelOverride ==
    \A i \in 1..Len(calls) :
        /\ calls[i].model_override = requested_model
        /\ calls[i].model =
              IF requested_model \in {None, ""}
              THEN default_model(calls[i].provider)
              ELSE requested_model

\* Auto mode has called a second candidate with the override of the request.
C31_Witness ==
    /\ ~Truthy(effective_provider)
    /\ Len(calls) >= 2
    /\ calls[1].provider # calls[2].provider
    /\ requested_model = "custom-model"
    /\ calls[2].model = "custom-model"

(***************************************************************************)
(* fix_newlines_in_strings                                                 *)
(***************************************************************************)

\* fix_newlines_in_strings has been called on the text of the state.
ScanReturned == unit.fn = "fix_newlines_in_strings" /\ unit.returned

\* A backslash before place i is waiting for the character it escapes.
RECURSIVE EscapePending(_, _)
EscapePending(text, i) ==
    /\ i > 1
    /\ text[i - 1] = Backslash
    /\ ~EscapePending(text, i - 1)

\* Place i is inside a quoted string: an odd number of quotes that no
\* backslash was waiting for stands before it.
InsideString(text, i) ==
    Cardinality({j \in 1..(i - 1) :
                    text[j] = Quote /\ ~EscapePending(text, j)}) % 2 = 1

EscapeLetter(c) ==
    CASE c = "\n" -> "n"
      [] c = "\r" -> "r"
      [] c = "\t" -> "t"

\* What the stated scan emits for the character at place i.
StatedImage(text, i) ==
    IF /\ text[i] \in ControlCharacters
       /\ InsideString(text, i)
       /\ ~EscapePending(text, i)
    THEN <<Backslash, EscapeLetter(text[i])>>
    ELSE <<text[i]>>

RECURSIVE StatedScan(_, _)
StatedScan(text, i) ==
    IF i > Len(text) THEN <<>>
    ELSE StatedImage(text, i) \o StatedScan(text, i + 1)

\* C32: the scan changes its input only by replacing each literal newline,
\* carriage return or tab that is inside a quoted string, with no backslash
\* pending, by its two-character escape; every other character comes out
\* unchanged and in order, and the in-string state toggles exactly on the
\* double quotes no backslash is pending for.
C32_OnlyControlCharactersEscaped ==
    ScanReturned => unit.output = StatedScan(unit.input, 1)

\* A text has been scanned in which the newline after a backslash was kept
\* and the tab after it, inside the same string, was escaped.
C32_Witness ==
    /\ ScanReturned
    /\ unit.input = <<Quote, Backslash, "\n", "\t">>
    /\ unit.output = <<Quote, Backslash, "\n", Backslash, "t">>

\* C33: the scan is idempotent: run on its own output it changes nothing, so
\* no character is escaped twice.
C33_ScanIdempotent ==
    ScanReturned => fix_newlines_in_strings(unit.output) = unit.output

\* A text in which the scan escaped something has been scanned.
C33_Witness ==
    /\ ScanReturned
    /\ unit.output # unit.input
    /\ Len(unit.output) = Len(unit.input) + 2

(***************************************************************************)
(* Name and document, hint and configuration                               *)
(***************************************************************************)

\* An auto-mode study request has returned a pair to its caller.
AutoStudyReturned ==
    /\ StudyRequest
    /\ AutoRequest
    /\ pc = "done"
    /\ result.status = "returned"

\* The document carries a true error flag.
ErrorFlagged(study) ==
    /\ study.type = "object"
    /\ "error" \in DOMAIN study.val
    /\ study.val["error"] = TRUE

\* C34: in auto mode the name and the document returned agree: the name is
\* "error" exactly when the document has a true error flag, and any other
\* name is that of an available provider, the last one called in the request.
C34_NameAgreesWithDocument ==
    AutoStudyReturned =>
        /\ (result.name = "error") <=> ErrorFlagged(result.study)
        /\ result.name # "error" =>
              /\ result.name \in RegisteredProviders
              /\ keys[result.name]
              /\ calls # <<>>
              /\ calls[Len(calls)].provider = result.name

\* Auto mode has returned the document of its second candidate under that
\* candidate's name.
C34_Witness ==
    /\ AutoStudyReturned
    /\ Len(calls) = 2
    /\ result.name = calls[2].provider
    /\ result.name # calls[1].provider
    /\ ~ErrorFlagged(result.study)

\* The configured value asks for auto mode.
ConfiguredAuto == LLM_PROVIDER \in {"auto", "AUTO", ""}

\* The request runs in auto mode: it names no provider and draws its
\* candidates from the fallback order.
AutoModeEntered == pc # "idle" /\ effective_provider = None

\* C35: the caller's hint takes precedence over the configured override:
\* LLM_PROVIDER is consulted only when no hint is given, and auto mode is
\* entered only when no hint is given and the configured value is "auto" in
\* any case or empty.
C35_HintBeforeConfiguration ==
    pc # "idle" =>
        /\ ~NoHint => effective_provider = StatedResolution(requested_provider)
        /\ (NoHint /\ ~ConfiguredAuto) => effective_provider = Lower(LLM_PROVIDER)
        /\ AutoModeEntered <=> (NoHint /\ ConfiguredAuto)

\* A hint for groq has led to a call of groq under a configuration that
\* names claude, with the key of claude set.
C35_Witness ==
    /\ requested_provider = "groq"
    /\ LLM_PROVIDER = "claude"
    /\ keys["claude"]
    /\ Len(calls) = 1
    /\ calls[1].provider = "groq"

NonObjectReply(r) ==
    /\ ~r.raised
    /\ r.study.type \in {"array", "string", "number", "null"}

\* C37: in auto mode a candidate whose generate_study returns a parsed value
\* that is not a JSON object is a failed candidate: the next candidate is
\* tried, or the aggregate error document is returned after the last, and no
\* such value is ever returned as a document.
C37_NonObjectIsFailure ==
    (StudyRequest /\ AutoRequest) =>
        /\ \A i \in 1..Len(replies) :
              NonObjectReply(replies[i].reply) => HandledAsFailure(i)
        /\ result.status = "returned" => result.study.type = "object"

\* The first candidate answered with a JSON string and the second with
\* null; a third candidate has been called.
C37_Witness ==
    /\ StudyRequest
    /\ AutoRequest
    /\ Len(replies) = 2
    /\ ~replies[1].reply.raised
    /\ replies[1].reply.study.type = "string"
    /\ ~replies[2].reply.raised
    /\ replies[2].reply.study.type = "null"
    /\ Len(calls) = 3

(***************************************************************************)
(* A code block without its closing fence                                  *)
(***************************************************************************)

\* The text begins with a fence mark and has no later line that is a fence
\* mark alone.
UnclosedFence(text) ==
    /\ startswith(text, FenceMark)
    /\ \A k \in 2..Len(split(text, "\n")) :
          strip(split(text, "\n")[k]) # FenceMark

\* The text after its first line.
AfterFirstLine(text) ==
    IF Places(text, "\n") = {} THEN <<>>
    ELSE SubSeq(text, Least(Places(text, "\n")) + 1, Len(text))

\* The parse and repair stages at work on a candidate.
StagesOn(candidate) ==
    FirstLoaded(<<candidate,
                  without_zero_width(fix_newlines_in_strings(json_match(candidate))),
                  json_match(candidate),
                  repair_truncated(json_match(candidate))>>)

\* C38: for a text that begins with a fence mark and has no later line that
\* is a closing fence mark alone, parse_json_response drops the first line
\* only and gives everything after it to the parse and repair stages.
C38_UnclosedFenceKeepsRest ==
    (ParseReturned /\ UnclosedFence(strip(unit.input))) =>
        /\ unit.raised = ~StagesOn(AfterFirstLine(strip(unit.input))).ok
        /\ unit.value = StagesOn(AfterFirstLine(strip(unit.input))).value

\* A code block cut off on the last of its three lines has been parsed, and
\* the object of those lines came back.
C38_Witness ==
    /\ ParseReturned
    /\ unit.kind = "unclosed"
    /\ UnclosedFence(strip(unit.input))
    /\ Cardinality(Places(unit.inner, "\n")) = 2
    /\ ~unit.raised
    /\ unit.value = JsonValue("obj", <<>>,
                              <<JsonString(<<"a">>), JsonValue("num", <<"1">>, <<>>)>>)

(***************************************************************************)
(* The cache writes of claude_api.generate_study                           *)
(***************************************************************************)

\* The documents the error paths of claude_api.generate_study build.
ErrorPathDocument(study) ==
    \E built \in {KeyMissingStudy, ParseErrorStudy, APIErrorStudy,
                   UnexpectedErrorStudy} :
        SameDocument(study, built)

\* Request i returns in this step.
ReturnsNow(i) == legacy[i].pc # "done" /\ legacy'[i].pc = "done"

\* C39: claude_api.generate_study writes the cache only on the path where
\* the backend call and the parse both succeeded; every error return leaves
\* the cache as it was, and no document an error path built is ever stored
\* in the cache or served from it.
C39_ErrorPathsLeaveCache ==
    /\ [][ \A i \in 1..MaxLegacyRequests :
             ReturnsNow(i) =>
                 /\ ErrorPathDocument(legacy'[i].result) =>
                        (cache' = cache /\ next_id' = next_id)
                 /\ (cache' # cache \/ next_id' # next_id) =>
                        /\ legacy[i].pc = "calling"
                        /\ legacy'[i].wrote
                        /\ json_loads(RowOf(cache', legacy[i].reference)
                                          .study_content).ok
                        /\ SameDocument(legacy'[i].result,
                               json_loads(RowOf(cache', legacy[i].reference)
                                              .study_content).value) ]_vars
    /\ [][ (cache' # cache \/ next_id' # next_id) =>
             \E i \in 1..MaxLegacyRequests : ReturnsNow(i) ]_vars
    /\ [](\A row \in cache :
              ~ErrorPathDocument(json_loads(row.study_content).value))
    /\ [](\A i \in 1..MaxLegacyRequests :
              (legacy[i].pc = "done" /\ ErrorPathDocument(legacy[i].result)) =>
                  (~legacy[i].wrote /\ ~truth(legacy[i].cached)))

\* One request has stored its document; another has made its backend call
\* and returned the unexpected-error document, and the cache holds the one
\* row of the first.
C39_Witness ==
    \E i, j \in 1..MaxLegacyRequests :
        /\ legacy[i].wrote
        /\ legacy[j].pc = "done"
        /\ legacy[j].backend_calls = 1
        /\ SameDocument(legacy[j].result, UnexpectedErrorStudy)
        /\ Cardinality(cache) = 1
        /\ next_id = 2

====
